---------------------------- MODULE Spec2Model ----------------------------
(***************************************************************************)
(* Secondary-CPU bring-up of the Qualcomm MSM8916/MSM8939 cpu_ops driver   *)
(* (drivers/soc/qcom/cpu_ops.c): msm_cpu_prepare, msm_cpu_boot with its    *)
(* power-on sequences, secondary_pen_release and msm_cpu_postboot, as a    *)
(* state machine of primary-side callers and secondary cores that share    *)
(* secondary_holding_pen_release, boot_lock and the cold_boot_done flags.  *)
(***************************************************************************)
EXTENDS Integers, Sequences, FiniteSets, TLC

(***************************************************************************)
(* Bounds of the model.                                                    *)
(***************************************************************************)
\* Highest logical cpu index that is present (cpus 0..MaxCpu).
MaxCpu == 2
\* Number of msm_cpu_boot calls that start while another call is in progress.
MaxCalls == 1
\* Number of msm_cpu_init calls.
MaxInitCalls == 7

(***************************************************************************)
(* Program constants.                                                      *)
(***************************************************************************)
ENOSYS == 38
ENODEV == 19
ENOMEM == 12
\* BIT(9) of L2_PWR_STATUS: the cache is powered.
L2_PWR_STATUS_BIT == 9
\* Contexts that call msm_cpu_boot on the primary side.
Primaries == {"p1", "p2"}
\* Idle callers are interchangeable: a new call is taken by the first idle one.
TakenBefore(q, p) == q = "p1" /\ p = "p2"
\* Present cpus, and the possible cpu that was never enumerated.
Cpus == 0..MaxCpu
PossibleCpus == 0..(MaxCpu + 1)
\* Cpu 0 is the boot cpu: it runs the primary side and never sits in the pen.
SecondaryCpus == Cpus \ {0}
\* The cpus msm_cpu_prepare is called for: every possible cpu but the boot cpu.
PreparedCpus == PossibleCpus \ {0}

(***************************************************************************)
(* A hardware id (MPIDR value): the four affinity fields and the bits      *)
(* outside MPIDR_HWID_BITMASK.  INVALID_HWID is the all-ones word.         *)
(***************************************************************************)
INVALID_HWID == [aff0 |-> 255, aff1 |-> 255, aff2 |-> 255, aff3 |-> 255, rsvd |-> 1]

cpu_logical_map(c) ==
    IF c \in Cpus
    THEN [aff0 |-> c, aff1 |-> 0, aff2 |-> 0, aff3 |-> 0, rsvd |-> 0]
    ELSE INVALID_HWID

\* mpidr_el1 & ~MPIDR_HWID_BITMASK
HwidBitsOutsideMask(h) == h.rsvd

\* The L2 power domain a cpu's next-level-cache phandle leads to: the cpus
\* are the cores of one cluster and share its L2.
L2Domain(c) == "l2_0"
L2Domains == {L2Domain(c) : c \in Cpus}

(***************************************************************************)
(* Recorded operations: what one msm_cpu_boot call did, in program order.  *)
(***************************************************************************)
Op(o, t, v) == [op |-> o, obj |-> t, val |-> v]
W(reg, v) == Op("writel", reg, v)
R(reg, v) == Op("readl", reg, v)
MB == Op("mb", "", 0)
Udelay(us) == Op("udelay", "", us)

\* BIT(n) of a register value.
BitSet(v, n) == (v \div (2 ^ n)) % 2 = 1
\* A mutant of the status test: the wrong bit.
L2PoweredWrongBit(status) == BitSet(status, L2_PWR_STATUS_BIT - 1)
\* readl_relaxed(pd_base + L2_PWR_STATUS) & BIT(9)
L2Powered(status) == BitSet(status, L2_PWR_STATUS_BIT)

\* A mutant of the L2 sequence: the settle time after the reset is 2us.
L2PowerOnSeqShortSettle ==
    << W("L2_PWR_CTL", \H10D700),
       W("L2_PWR_CTL_OVERRIDE", \H400000), MB, Udelay(2),
       W("L2_PWR_CTL", \H101700),
       W("L2_PWR_CTL", \H101703), MB, Udelay(2),
       W("L2_CORE_CBCR", \H01),
       W("L2_PWR_CTL", \H101603), MB, Udelay(2),
       W("L2_PWR_CTL_OVERRIDE", \H0),
       W("L2_PWR_CTL", \H100203), MB, Udelay(2),
       W("L2_PWR_CTL", \H10100203),
       W("L2_CORE_CBCR", \H03), MB >>

\* The writes of msm_power_on_l2_cache between the status test and "done:".
L2PowerOnSeq ==
    << W("L2_PWR_CTL", \H10D700),
       W("L2_PWR_CTL_OVERRIDE", \H400000), MB, Udelay(2),
       W("L2_PWR_CTL", \H101700),
       W("L2_PWR_CTL", \H101703), MB, Udelay(2),
       W("L2_CORE_CBCR", \H01),
       W("L2_PWR_CTL", \H101603), MB, Udelay(2),
       W("L2_PWR_CTL_OVERRIDE", \H0),
       W("L2_PWR_CTL", \H100203), MB, Udelay(54),
       W("L2_PWR_CTL", \H10100203),
       W("L2_CORE_CBCR", \H03), MB >>

\* A mutant of the core sequence: the PWRDUP write is missing.
CpuPowerOnSeqNoPwrdup ==
    << W("CPU_PWR_CTL", \H00000033), MB,
       W("CPU_PWR_GATE_CTL", \H10000001), MB, Udelay(2),
       W("CPU_PWR_CTL", \H00000031), MB,
       W("CPU_PWR_CTL", \H00000039), MB, Udelay(2),
       W("CPU_PWR_CTL", \H00020038), MB, Udelay(2),
       W("CPU_PWR_CTL", \H00020008), MB >>

\* A mutant of the core sequence: the reset is released before the clamp.
CpuPowerOnSeqResetBeforeClamp ==
    << W("CPU_PWR_CTL", \H00000033), MB,
       W("CPU_PWR_GATE_CTL", \H10000001), MB, Udelay(2),
       W("CPU_PWR_CTL", \H00000031), MB,
       W("CPU_PWR_CTL", \H00000039), MB, Udelay(2),
       W("CPU_PWR_CTL", \H00020008), MB, Udelay(2),
       W("CPU_PWR_CTL", \H00020038), MB,
       W("CPU_PWR_CTL", \H00020088), MB >>

\* A mutant of the core sequence: no delay after the clamp is released.
CpuPowerOnSeqNoClampDelay ==
    << W("CPU_PWR_CTL", \H00000033), MB,
       W("CPU_PWR_GATE_CTL", \H10000001), MB, Udelay(2),
       W("CPU_PWR_CTL", \H00000031), MB,
       W("CPU_PWR_CTL", \H00000039), MB, Udelay(2),
       W("CPU_PWR_CTL", \H00020038), MB,
       W("CPU_PWR_CTL", \H00020008), MB,
       W("CPU_PWR_CTL", \H00020088), MB >>

\* The writes of msm_unclamp_secondary_arm_cpu on the core's ACC block.
CpuPowerOnSeq ==
    << W("CPU_PWR_CTL", \H00000033), MB,
       W("CPU_PWR_GATE_CTL", \H10000001), MB, Udelay(2),
       W("CPU_PWR_CTL", \H00000031), MB,
       W("CPU_PWR_CTL", \H00000039), MB, Udelay(2),
       W("CPU_PWR_CTL", \H00020038), MB, Udelay(2),
       W("CPU_PWR_CTL", \H00020008), MB,
       W("CPU_PWR_CTL", \H00020088), MB >>

\* A mutant of the exit labels: put_l2 jumps over put_acc.
PutsFromLeaksAcc(label) ==
    CASE label = "put_l2pd" -> << Op("of_node_put", "l2pd", 0), Op("of_node_put", "l2", 0),
                                  Op("of_node_put", "cpu", 0) >>
      [] label = "put_l2"   -> << Op("of_node_put", "l2", 0), Op("of_node_put", "cpu", 0) >>
      [] label = "put_acc"  -> << Op("of_node_put", "acc", 0), Op("of_node_put", "cpu", 0) >>
      [] label = "put_cpu"  -> << Op("of_node_put", "cpu", 0) >>
      [] OTHER              -> << >>

\* The of_node_put calls of the exit labels, from the given label on.
PutsFrom(label) ==
    CASE label = "put_l2pd" -> << Op("of_node_put", "l2pd", 0), Op("of_node_put", "l2", 0),
                                  Op("of_node_put", "acc", 0), Op("of_node_put", "cpu", 0) >>
      [] label = "put_l2"   -> << Op("of_node_put", "l2", 0),
                                  Op("of_node_put", "acc", 0), Op("of_node_put", "cpu", 0) >>
      [] label = "put_acc"  -> << Op("of_node_put", "acc", 0), Op("of_node_put", "cpu", 0) >>
      [] label = "put_cpu"  -> << Op("of_node_put", "cpu", 0) >>
      [] OTHER              -> << >>

\* Outcomes of the device-tree lookups of msm_unclamp_secondary_arm_cpu.
TopoOutcomes == {"ok", "no_cpu", "no_acc", "no_l2", "no_l2pd"}

\* The lookups made, and the references dropped, for a lookup outcome.
TopoOps(t) ==
    CASE t = "no_cpu"  -> << >>
      [] t = "no_acc"  -> << Op("of_get", "cpu", 0) >> \o PutsFrom("put_cpu")
      [] t = "no_l2"   -> << Op("of_get", "cpu", 0), Op("of_get", "acc", 0) >>
                          \o PutsFrom("put_acc")
      [] t = "no_l2pd" -> << Op("of_get", "cpu", 0), Op("of_get", "acc", 0),
                             Op("of_get", "l2", 0) >> \o PutsFrom("put_l2")
      [] OTHER         -> << Op("of_get", "cpu", 0), Op("of_get", "acc", 0),
                             Op("of_get", "l2", 0), Op("of_get", "l2pd", 0) >>

VARIABLES
    pen_release,     \* secondary_holding_pen_release
    boot_lock,       \* boot_lock: 1 while held
    cold_boot_done,  \* per-cpu cold_boot_done
    l2_status,       \* L2_PWR_STATUS of each L2 power domain
    sec,             \* where each secondary core is on its way up
    pwr_runs,        \* per cpu: completed runs of the core power-rail sequence
    prepared,        \* per cpu: what its msm_cpu_prepare call returned, if made
    calls,           \* msm_cpu_boot calls started during another call
    pc,              \* per caller: position in msm_cpu_boot
    cpu,             \* per caller: the cpu argument
    ret,             \* per caller: the value the last call returned
    expired,         \* per caller: jiffies has reached the call's timeout
    arrival,         \* per caller: the requested core's arrival in this call
    cold,            \* per caller: cold_boot_done was false at the call's test
    io,              \* per caller: the operations of the current call
    initialized,     \* msm_cpu_init: static int initialized
    init_calls,      \* msm_cpu_init: calls made
    init_cpu,        \* msm_cpu_init: the cpu argument of the last call
    init_ret,        \* msm_cpu_init: the value the last call returned
    scm_checks,      \* qcom_scm_mc_boot_available: calls made
    scm_available,   \* qcom_scm_mc_boot_available: calls that returned nonzero
    probed,          \* nt35521_probe: "no", "ok" or "failed"
    reset_gpio,      \* ctx->reset_gpio is not NULL
    gpio_value,      \* the value driven on the reset line
    ctx_prepared,    \* ctx->prepared
    ctx_enabled,     \* ctx->enabled
    bl_power,        \* ctx->bl_dev->props.power
    brightness,      \* ctx->bl_dev->props.brightness
    mode_flags,      \* dsi->mode_flags
    panel_call,      \* the last panel or backlight callback made
    panel_ret,       \* the value it returned
    panel_log,       \* the GPIO, delay and DSI operations it made
    pll_copy,        \* which copy of the A53 PLL driver is bound
    pll_tbl,         \* pll->freq_tbl: the name of the installed table
    pll_registered,  \* qcom_a53pll_probe returned 0
    pll_ret,         \* the value qcom_a53pll_probe returned
    pll_io,          \* regmap writes made by the probe
    pll_rate,        \* the rate a table scan looks for
    pll_pos,         \* the index the scan is at (0: no scan running)
    pll_found,       \* the result of the last finished scan
    pll_beyond       \* entries the current or last scan read past the end

\* The state of secondary bring-up (msm_cpu_prepare, msm_cpu_boot, postboot).
cpu_ops_vars == << pen_release, boot_lock, cold_boot_done, l2_status, sec,
                   pwr_runs, prepared, calls, pc, cpu, ret, expired, arrival, cold, io >>
\* The state of msm_cpu_init.
init_vars == << initialized, init_calls, init_cpu, init_ret, scm_checks, scm_available >>
\* The state of the NT35521 panel driver.
panel_vars == << probed, reset_gpio, gpio_value, ctx_prepared, ctx_enabled, bl_power,
                 brightness, mode_flags, panel_call, panel_ret, panel_log >>
\* The state of the A53 PLL driver.
pll_vars == << pll_copy, pll_tbl, pll_registered, pll_ret, pll_io,
               pll_rate, pll_pos, pll_found, pll_beyond >>
\* What secondary bring-up never touches.
outside == << init_vars, panel_vars, pll_vars >>

vars == << cpu_ops_vars, init_vars, panel_vars, pll_vars >>

shared == << pen_release, boot_lock, cold_boot_done, l2_status, sec, pwr_runs >>

\* Values the L2 status register may hold at boot (bit 8, bit 9, neither).
L2StatusAtBoot == {0, 2 ^ (L2_PWR_STATUS_BIT - 1), 2 ^ L2_PWR_STATUS_BIT}

Init ==
    /\ pen_release = INVALID_HWID
    /\ boot_lock = 0
    /\ cold_boot_done = [c \in PossibleCpus |-> FALSE]
    /\ l2_status \in [L2Domains -> L2StatusAtBoot]
    /\ sec = [c \in SecondaryCpus |-> "pen"]
    /\ pwr_runs = [c \in Cpus |-> 0]
    /\ prepared = [c \in PreparedCpus |-> "none"]
    /\ calls = 0
    /\ pc = [p \in Primaries |-> "idle"]
    /\ cpu = [p \in Primaries |-> 0]
    /\ ret = [p \in Primaries |-> 0]
    /\ expired = [p \in Primaries |-> FALSE]
    /\ arrival = [p \in Primaries |-> "none"]
    /\ cold = [p \in Primaries |-> FALSE]
    /\ io = [p \in Primaries |-> << >>]
    /\ initialized = 0
    /\ init_calls = 0
    /\ init_cpu = 0
    /\ init_ret = 0
    /\ scm_checks = 0
    /\ scm_available = 0
    /\ probed = "no"
    /\ reset_gpio = FALSE
    /\ gpio_value = 0
    /\ ctx_prepared = FALSE
    /\ ctx_enabled = FALSE
    /\ bl_power = "none"
    /\ brightness = 0
    /\ mode_flags = {}
    /\ panel_call = "none"
    /\ panel_ret = 0
    /\ panel_log = << >>
    /\ pll_copy = 0
    /\ pll_tbl = "none"
    /\ pll_registered = FALSE
    /\ pll_ret = 0
    /\ pll_io = << >>
    /\ pll_rate = 0
    /\ pll_pos = 0
    /\ pll_found = "none"
    /\ pll_beyond = 0

(***************************************************************************)
(* Helpers of the actions.                                                 *)
(***************************************************************************)
\* No msm_cpu_boot call is in progress.
Quiescent == \A p \in Primaries : pc[p] = "idle"

\* A returned value is taken before anything else runs: the record of a
\* finished call is local to its caller.
NoReturnPending == \A p \in Primaries : pc[p] # "done"

Log(p, ops) == [io EXCEPT ![p] = @ \o ops]

\* A mutant of write_pen_release: the flush comes before the barrier.
write_pen_release_ops_flush_first ==
    << Op("store", "secondary_holding_pen_release", 0),
       Op("flush_dcache", "secondary_holding_pen_release", 0),
       Op("smp_wmb", "", 0) >>

\* The store, barrier and flush of write_pen_release.
write_pen_release_ops == << Op("store", "secondary_holding_pen_release", 0),
                            Op("smp_wmb", "", 0),
                            Op("flush_dcache", "secondary_holding_pen_release", 0) >>

\* A mutant of the return expression: success whenever the loop was left.
PenReleaseResultAlwaysOk(pen) == 0
\* return secondary_holding_pen_release != INVALID_HWID ? -ENOSYS : 0;
PenReleaseResult(pen) == IF pen # INVALID_HWID THEN -ENOSYS ELSE 0

\* The per-core state a finished wake request leaves.
CoreStateAfterWake(r) == IF r = 0 THEN "ONLINE" ELSE "BOOT_FAILED"

\* A call has published its id and has not yet read its result.
Outstanding(p) == pc[p] \in {"loop", "poll", "unlock", "ret"}

\* A caller is between raw_spin_lock and raw_spin_unlock of secondary_pen_release.
InCritical(p) == pc[p] \in {"publish", "loop", "poll", "unlock"}

\* A mutant of the lock test: the lock is taken whatever its state.
LockFreeIgnored == TRUE
\* raw_spin_lock(&boot_lock) goes on when the lock is free.
LockFree == boot_lock = 0

\* A mutant of the cpu0 mark: the whole per-cpu array is rewritten.
MarkCpu0Overwrite(flags) == [c \in PossibleCpus |-> c = 0]
\* A mutant of the cpu0 mark: the flag is left as it is.
MarkCpu0Skipped(flags) == flags
\* per_cpu(cold_boot_done, 0) = true, when it was false.
MarkCpu0(flags) == IF flags[0] = FALSE THEN [flags EXCEPT ![0] = TRUE] ELSE flags

\* A mutant of the gate of msm_cpu_boot: the power sequence runs on every boot.
ColdBootNeededAlways(c) == TRUE
\* per_cpu(cold_boot_done, cpu) == false
ColdBootNeeded(c) == cold_boot_done[c] = FALSE

(***************************************************************************)
(* msm_cpu_prepare: registers the boot address with the firmware and marks *)
(* cpu0's cold boot as done.  scm_ok is the firmware's answer.             *)
(***************************************************************************)
\* The value msm_cpu_prepare returns.
msm_cpu_prepare_ret(c, scm_ok) ==
    IF HwidBitsOutsideMask(cpu_logical_map(c)) # 0 THEN -ENOSYS
    ELSE IF ~scm_ok THEN -ENOSYS
    ELSE 0

\* qcom_scm_set_cold_boot_addr_mc is reached only with a valid hardware id.
ScmCalled(c) == HwidBitsOutsideMask(cpu_logical_map(c)) = 0

\* A mutant of msm_cpu_prepare: cpu0 is marked before the result is tested.
msm_cpu_prepare_marks_first(c, scm_ok) ==
    /\ NoReturnPending
    /\ cold_boot_done' = MarkCpu0(cold_boot_done)
    /\ UNCHANGED << pen_release, boot_lock, l2_status, sec, pwr_runs,
                    calls, pc, cpu, ret, expired, arrival, cold, io >>

msm_cpu_prepare(c, scm_ok) ==
    /\ NoReturnPending
    /\ cold_boot_done' =
          IF HwidBitsOutsideMask(cpu_logical_map(c)) # 0 THEN cold_boot_done
          ELSE IF ~scm_ok THEN cold_boot_done
          ELSE MarkCpu0(cold_boot_done)
    /\ UNCHANGED << pen_release, boot_lock, l2_status, sec, pwr_runs,
                    calls, pc, cpu, ret, expired, arrival, cold, io >>

\* The hotplug core brings up only the cpus it has marked present: the boot
\* cpu, and each cpu whose msm_cpu_prepare returned 0.
CpuPresent(c) == IF c = 0 THEN TRUE ELSE prepared[c] = "ok"

(***************************************************************************)
(* msm_cpu_boot, entry: the cold_boot_done test and, for a cold core, the  *)
(* device-tree lookups of msm_unclamp_secondary_arm_cpu.                   *)
(***************************************************************************)
StartCall(p, c) ==
    /\ pc[p] = "idle"
    /\ NoReturnPending
    /\ \A q \in Primaries : TakenBefore(q, p) => pc[q] # "idle"
    /\ CpuPresent(c)
    /\ Quiescent \/ calls < MaxCalls
    /\ UNCHANGED << prepared, outside >>
    /\ calls' = IF Quiescent THEN calls ELSE calls + 1
    /\ cpu' = [cpu EXCEPT ![p] = c]
    /\ expired' = [expired EXCEPT ![p] = FALSE]
    /\ arrival' = [arrival EXCEPT ![p] = "none"]

BootWarm(p, c) ==
    /\ StartCall(p, c)
    /\ ~ColdBootNeeded(c)
    /\ cold' = [cold EXCEPT ![p] = FALSE]
    /\ io' = [io EXCEPT ![p] = << >>]
    /\ ret' = [ret EXCEPT ![p] = 0]
    /\ pc' = [pc EXCEPT ![p] = "lock"]
    /\ UNCHANGED shared

BootColdResolve(p, c) ==
    /\ StartCall(p, c)
    /\ ColdBootNeeded(c)
    /\ cold' = [cold EXCEPT ![p] = TRUE]
    /\ io' = [io EXCEPT ![p] = TopoOps("ok")]
    /\ ret' = [ret EXCEPT ![p] = 0]
    /\ pc' = [pc EXCEPT ![p] = "l2_map"]
    /\ UNCHANGED shared

\* A mutant of the lookup failure: msm_cpu_boot does not test the result.
BootColdNoTopologyUnchecked(p, c, t) ==
    /\ StartCall(p, c)
    /\ ColdBootNeeded(c)
    /\ t # "ok"
    /\ cold' = [cold EXCEPT ![p] = TRUE]
    /\ io' = [io EXCEPT ![p] = TopoOps(t)]
    /\ ret' = [ret EXCEPT ![p] = -ENODEV]
    /\ pc' = [pc EXCEPT ![p] = "mark"]
    /\ UNCHANGED shared

\* A lookup fails: -ENODEV, through the exit label of the failed lookup.
BootColdNoTopology(p, c, t) ==
    /\ StartCall(p, c)
    /\ ColdBootNeeded(c)
    /\ t # "ok"
    /\ cold' = [cold EXCEPT ![p] = TRUE]
    /\ io' = [io EXCEPT ![p] = TopoOps(t)]
    /\ ret' = [ret EXCEPT ![p] = -ENODEV]
    /\ pc' = [pc EXCEPT ![p] = "done"]
    /\ UNCHANGED shared

(***************************************************************************)
(* msm_power_on_l2_cache.                                                  *)
(***************************************************************************)
\* of_iomap fails: -ENOMEM, through put_l2pd.
L2MapFail(p) ==
    /\ pc[p] = "l2_map"
    /\ NoReturnPending
    /\ io' = Log(p, << Op("of_iomap_failed", "l2pd", 0) >> \o PutsFrom("put_l2pd"))
    /\ ret' = [ret EXCEPT ![p] = -ENOMEM]
    /\ pc' = [pc EXCEPT ![p] = "done"]
    /\ UNCHANGED << prepared, outside >>
    /\ UNCHANGED << shared, calls, cpu, expired, arrival, cold >>

\* of_iomap and the status read; an already powered cache goes to "done:".
L2MapAndTest(p) ==
    LET st == l2_status[L2Domain(cpu[p])] IN
    /\ pc[p] = "l2_map"
    /\ NoReturnPending
    /\ IF L2Powered(st)
       THEN /\ io' = Log(p, << Op("of_iomap", "l2pd", 0), R("L2_PWR_STATUS", st),
                               Op("iounmap", "l2pd", 0) >>)
            /\ pc' = [pc EXCEPT ![p] = "acc_map"]
       ELSE /\ io' = Log(p, << Op("of_iomap", "l2pd", 0), R("L2_PWR_STATUS", st) >>)
            /\ pc' = [pc EXCEPT ![p] = "l2_seq"]
    /\ UNCHANGED << prepared, outside >>
    /\ UNCHANGED << shared, calls, cpu, ret, expired, arrival, cold >>

\* The power-up writes; the domain then reports the cache powered.
L2PowerOn(p) ==
    LET d  == L2Domain(cpu[p])
        st == l2_status[d] IN
    /\ pc[p] = "l2_seq"
    /\ NoReturnPending
    /\ io' = Log(p, L2PowerOnSeq \o << Op("iounmap", "l2pd", 0) >>)
    /\ l2_status' = [l2_status EXCEPT ![d] =
                        IF L2Powered(st) THEN st ELSE st + 2 ^ L2_PWR_STATUS_BIT]
    /\ pc' = [pc EXCEPT ![p] = "acc_map"]
    /\ UNCHANGED << prepared, outside >>
    /\ UNCHANGED << pen_release, boot_lock, cold_boot_done, sec, pwr_runs,
                    calls, cpu, ret, expired, arrival, cold >>

(***************************************************************************)
(* msm_unclamp_secondary_arm_cpu, after the L2 power-up.                   *)
(***************************************************************************)
\* A mutant of the ACC mapping failure: msm_cpu_boot does not test the result.
AccMapFailUnchecked(p) ==
    /\ pc[p] = "acc_map"
    /\ NoReturnPending
    /\ io' = Log(p, << Op("of_iomap_failed", "acc", 0) >> \o PutsFrom("put_l2pd"))
    /\ ret' = [ret EXCEPT ![p] = -ENOMEM]
    /\ pc' = [pc EXCEPT ![p] = "mark"]
    /\ UNCHANGED << prepared, outside >>
    /\ UNCHANGED << shared, calls, cpu, expired, arrival, cold >>

\* of_iomap of the ACC block fails: -ENOMEM, through put_l2pd.
AccMapFail(p) ==
    /\ pc[p] = "acc_map"
    /\ NoReturnPending
    /\ io' = Log(p, << Op("of_iomap_failed", "acc", 0) >> \o PutsFrom("put_l2pd"))
    /\ ret' = [ret EXCEPT ![p] = -ENOMEM]
    /\ pc' = [pc EXCEPT ![p] = "done"]
    /\ UNCHANGED << prepared, outside >>
    /\ UNCHANGED << shared, calls, cpu, expired, arrival, cold >>

AccPowerOn(p) ==
    /\ pc[p] = "acc_map"
    /\ NoReturnPending
    /\ io' = Log(p, << Op("of_iomap", "acc", 0) >> \o CpuPowerOnSeq
                    \o << Op("iounmap", "acc", 0) >> \o PutsFrom("put_l2pd"))
    /\ pwr_runs' = [pwr_runs EXCEPT ![cpu[p]] = @ + 1]
    /\ pc' = [pc EXCEPT ![p] = "mark"]
    /\ UNCHANGED << prepared, outside >>
    /\ UNCHANGED << pen_release, boot_lock, cold_boot_done, l2_status, sec,
                    calls, cpu, ret, expired, arrival, cold >>

\* per_cpu(cold_boot_done, cpu) = true, in msm_cpu_boot.
MarkColdBootDone(p) ==
    /\ pc[p] = "mark"
    /\ NoReturnPending
    /\ cold_boot_done' = [cold_boot_done EXCEPT ![cpu[p]] = TRUE]
    /\ pc' = [pc EXCEPT ![p] = "lock"]
    /\ UNCHANGED << prepared, outside >>
    /\ UNCHANGED << pen_release, boot_lock, l2_status, sec, pwr_runs,
                    calls, cpu, ret, expired, arrival, cold, io >>

(***************************************************************************)
(* secondary_pen_release.                                                  *)
(***************************************************************************)
\* raw_spin_lock(&boot_lock)
PenLock(p) ==
    /\ pc[p] = "lock"
    /\ NoReturnPending
    /\ LockFree
    /\ boot_lock' = 1
    /\ io' = Log(p, << Op("raw_spin_lock", "boot_lock", 0) >>)
    /\ pc' = [pc EXCEPT ![p] = "publish"]
    /\ UNCHANGED << prepared, outside >>
    /\ UNCHANGED << pen_release, cold_boot_done, l2_status, sec, pwr_runs,
                    calls, cpu, ret, expired, arrival, cold >>

\* write_pen_release(cpu_logical_map(cpu)); sev(); timeout = jiffies + HZ
PenPublish(p) ==
    /\ pc[p] = "publish"
    /\ NoReturnPending
    /\ pen_release' = cpu_logical_map(cpu[p])
    /\ io' = Log(p, write_pen_release_ops \o << Op("sev", "", 0) >>)
    /\ pc' = [pc EXCEPT ![p] = "loop"]
    /\ UNCHANGED << prepared, outside >>
    /\ UNCHANGED << boot_lock, cold_boot_done, l2_status, sec, pwr_runs,
                    calls, cpu, ret, expired, arrival, cold >>

\* jiffies reaches the call's timeout, one second after the publish.
Deadline(p) ==
    /\ pc[p] \in {"loop", "poll"}
    /\ NoReturnPending
    /\ ~expired[p]
    /\ expired' = [expired EXCEPT ![p] = TRUE]
    /\ UNCHANGED << prepared, outside >>
    /\ UNCHANGED << shared, calls, pc, cpu, ret, arrival, cold, io >>

\* while (time_before(jiffies, timeout))
PenLoopTest(p) ==
    /\ pc[p] = "loop"
    /\ NoReturnPending
    /\ IF expired[p]
       THEN /\ pc' = [pc EXCEPT ![p] = "unlock"]
            /\ io' = Log(p, << Op("poll_end", "timeout", 0) >>)
       ELSE /\ pc' = [pc EXCEPT ![p] = "poll"]
            /\ io' = io
    /\ UNCHANGED << prepared, outside >>
    /\ UNCHANGED << shared, calls, cpu, ret, expired, arrival, cold >>

\* if (secondary_holding_pen_release == INVALID_HWID) break; udelay(10);
PenPoll(p) ==
    /\ pc[p] = "poll"
    /\ NoReturnPending
    /\ IF pen_release = INVALID_HWID
       THEN /\ pc' = [pc EXCEPT ![p] = "unlock"]
            /\ io' = Log(p, << Op("poll_end", "break", 0) >>)
       ELSE /\ pc' = [pc EXCEPT ![p] = "loop"]
            /\ io' = io
    /\ UNCHANGED << prepared, outside >>
    /\ UNCHANGED << shared, calls, cpu, ret, expired, arrival, cold >>

\* A mutant of the unlock: the loop is left with the lock still held.
PenUnlockKeepsLock(p) ==
    /\ pc[p] = "unlock"
    /\ NoReturnPending
    /\ boot_lock' = boot_lock
    /\ io' = Log(p, << Op("raw_spin_unlock", "boot_lock", 0) >>)
    /\ pc' = [pc EXCEPT ![p] = "ret"]
    /\ UNCHANGED << prepared, outside >>
    /\ UNCHANGED << pen_release, cold_boot_done, l2_status, sec, pwr_runs,
                    calls, cpu, ret, expired, arrival, cold >>

\* raw_spin_unlock(&boot_lock)
PenUnlock(p) ==
    /\ pc[p] = "unlock"
    /\ NoReturnPending
    /\ boot_lock' = 0
    /\ io' = Log(p, << Op("raw_spin_unlock", "boot_lock", 0) >>)
    /\ pc' = [pc EXCEPT ![p] = "ret"]
    /\ UNCHANGED << prepared, outside >>
    /\ UNCHANGED << pen_release, cold_boot_done, l2_status, sec, pwr_runs,
                    calls, cpu, ret, expired, arrival, cold >>

\* The return expression, read after the unlock.
PenReturn(p) ==
    LET r == PenReleaseResult(pen_release) IN
    /\ pc[p] = "ret"
    /\ NoReturnPending
    /\ ret' = [ret EXCEPT ![p] = r]
    /\ pc' = [pc EXCEPT ![p] = "done"]
    /\ UNCHANGED << prepared, outside >>
    /\ UNCHANGED << pen_release, boot_lock, cold_boot_done, l2_status, sec, pwr_runs,
                    calls, cpu, expired, arrival, cold, io >>

(***************************************************************************)
(* The secondary core: the holding pen, then msm_cpu_postboot.             *)
(***************************************************************************)
\* secondary_holding_pen: the core leaves the pen when it reads its own id.
PenLeave(c) ==
    /\ sec[c] = "pen"
    /\ NoReturnPending
    /\ pen_release = cpu_logical_map(c)
    /\ sec' = [sec EXCEPT ![c] = "booting"]
    /\ UNCHANGED << prepared, outside >>
    /\ UNCHANGED << pen_release, boot_lock, cold_boot_done, l2_status,
                    pwr_runs, calls, pc, cpu, ret, expired, arrival, cold, io >>

\* write_pen_release(INVALID_HWID)
PostbootWrite(c) ==
    /\ sec[c] = "booting"
    /\ NoReturnPending
    /\ pen_release' = INVALID_HWID
    /\ sec' = [sec EXCEPT ![c] = "wrote"]
    /\ arrival' = [p \in Primaries |->
                     IF cpu[p] = c /\ Outstanding(p) /\ arrival[p] = "none"
                     THEN (IF expired[p] THEN "late" ELSE "intime")
                     ELSE arrival[p]]
    /\ UNCHANGED << prepared, outside >>
    /\ UNCHANGED << boot_lock, cold_boot_done, l2_status, pwr_runs,
                    calls, pc, cpu, ret, expired, cold, io >>

\* raw_spin_lock(&boot_lock)
PostbootLock(c) ==
    /\ sec[c] = "wrote"
    /\ NoReturnPending
    /\ LockFree
    /\ boot_lock' = 1
    /\ sec' = [sec EXCEPT ![c] = "locked"]
    /\ UNCHANGED << prepared, outside >>
    /\ UNCHANGED << pen_release, cold_boot_done, l2_status, pwr_runs,
                    calls, pc, cpu, ret, expired, arrival, cold, io >>

\* raw_spin_unlock(&boot_lock)
PostbootUnlock(c) ==
    /\ sec[c] = "locked"
    /\ NoReturnPending
    /\ boot_lock' = 0
    /\ sec' = [sec EXCEPT ![c] = "online"]
    /\ UNCHANGED << prepared, outside >>
    /\ UNCHANGED << pen_release, cold_boot_done, l2_status, pwr_runs,
                    calls, pc, cpu, ret, expired, arrival, cold, io >>

(***************************************************************************)
(* Specifications.                                                         *)
(***************************************************************************)
\* The caller takes the returned value; the record of the call is dropped.
BootExit(p) ==
    /\ pc[p] = "done"
    /\ pc' = [pc EXCEPT ![p] = "idle"]
    /\ cpu' = [cpu EXCEPT ![p] = 0]
    /\ ret' = [ret EXCEPT ![p] = 0]
    /\ expired' = [expired EXCEPT ![p] = FALSE]
    /\ arrival' = [arrival EXCEPT ![p] = "none"]
    /\ cold' = [cold EXCEPT ![p] = FALSE]
    /\ io' = [io EXCEPT ![p] = << >>]
    /\ UNCHANGED << prepared, outside >>
    /\ UNCHANGED << shared, calls >>

\* The caller's loop over the possible cpus: one call for each, and the cpu
\* is marked present when the call returned 0.
Prepare ==
    \E c \in PreparedCpus, scm_ok \in BOOLEAN :
        /\ prepared[c] = "none"
        /\ msm_cpu_prepare(c, scm_ok)
        /\ prepared' = [prepared EXCEPT ![c] =
                           IF msm_cpu_prepare_ret(c, scm_ok) = 0 THEN "ok" ELSE "failed"]
        /\ UNCHANGED outside

BootEntry(p) ==
    \E c \in Cpus :
        \/ BootWarm(p, c)
        \/ BootColdResolve(p, c)
        \/ \E t \in TopoOutcomes : BootColdNoTopology(p, c, t)

PowerOnStep(p) ==
    \/ L2MapFail(p)
    \/ L2MapAndTest(p)
    \/ L2PowerOn(p)
    \/ AccMapFail(p)
    \/ AccPowerOn(p)
    \/ MarkColdBootDone(p)

WakeStep(p) ==
    \/ PenLock(p)
    \/ PenPublish(p)
    \/ PenLoopTest(p)
    \/ PenPoll(p)
    \/ PenUnlock(p)
    \/ PenReturn(p)

SecondaryStep(c) ==
    \/ PenLeave(c)
    \/ PostbootWrite(c)
    \/ PostbootLock(c)
    \/ PostbootUnlock(c)

Running ==
    \/ \E p \in Primaries : PowerOnStep(p) \/ WakeStep(p) \/ Deadline(p) \/ BootExit(p)
    \/ \E c \in SecondaryCpus : SecondaryStep(c)
    \/ Prepare

\* Callers may overlap their msm_cpu_boot calls.
Next == (\E p \in Primaries : BootEntry(p)) \/ Running

Spec == Init /\ [][Next]_vars

\* One msm_cpu_boot call at a time, as the hotplug core issues them.
NextSeq ==
    \/ \E p \in Primaries, c \in Cpus : Quiescent /\ BootWarm(p, c)
    \/ \E p \in Primaries, c \in Cpus : Quiescent /\ BootColdResolve(p, c)
    \/ \E p \in Primaries, c \in Cpus, t \in TopoOutcomes :
          Quiescent /\ BootColdNoTopology(p, c, t)
    \/ Running

SpecSeq == Init /\ [][NextSeq]_vars


(***************************************************************************)
(* Scheduling: each cpu keeps executing, so a started call and a started   *)
(* msm_cpu_postboot take their next step, jiffies keeps advancing, and     *)
(* boot_lock is a fair spinlock.  Fairness is strong because a step may be *)
(* held back again and again, by the lock or by a returned value being     *)
(* taken first.  Nothing obliges a caller to start a call or a core to     *)
(* leave the pen and call msm_cpu_postboot.  One condition per kind of     *)
(* agent is weaker than one per agent, and is all the properties need.     *)
(***************************************************************************)
Fairness ==
    /\ SF_vars(\E p \in Primaries : PowerOnStep(p) \/ WakeStep(p) \/ BootExit(p))
    /\ SF_vars(\E p \in Primaries : Deadline(p))
    /\ SF_vars(\E c \in SecondaryCpus : PostbootLock(c) \/ PostbootUnlock(c))

FairSpec == SpecSeq /\ Fairness

(***************************************************************************)
(* msm_cpu_init: the one-time check that multi-cluster boot is available.  *)
(* avail is what qcom_scm_mc_boot_available returns.                       *)
(***************************************************************************)
\* A mutant of msm_cpu_init_once: the result is read as an error code.
msm_cpu_init_once_as_errno(avail) == IF avail # 0 THEN -ENOSYS ELSE 0
\* ret = qcom_scm_mc_boot_available(); if (ret == 0) return -ENOSYS; return 0;
msm_cpu_init_once(avail) == IF avail = 0 THEN -ENOSYS ELSE 0

msm_cpu_init(c, avail) ==
    /\ init_calls < MaxInitCalls
    /\ init_calls' = init_calls + 1
    /\ init_cpu' = c
    /\ IF initialized = 0
       THEN /\ scm_checks' = scm_checks + 1
            /\ scm_available' = IF avail # 0 THEN scm_available + 1 ELSE scm_available
            /\ IF msm_cpu_init_once(avail) # 0
               THEN /\ init_ret' = msm_cpu_init_once(avail)
                    /\ initialized' = initialized
               ELSE /\ initialized' = 1
                    /\ init_ret' = 0
       ELSE /\ init_ret' = 0
            /\ UNCHANGED << initialized, scm_checks, scm_available >>
    /\ UNCHANGED << cpu_ops_vars, panel_vars, pll_vars >>

NextInit == \E c \in PossibleCpus, avail \in {0, 1} : msm_cpu_init(c, avail)

SpecInit == Init /\ [][NextInit]_vars

(***************************************************************************)
(* The Truly NT35521 panel driver.  Each callback runs to completion: the  *)
(* DRM core and the backlight core serialise the calls they make.  What a  *)
(* DSI transfer returns is an input of the call.                           *)
(***************************************************************************)
ENXIO == 6
MCS_CMD_READ_ID == 218
NT35521_BACKLIGHT_DEFAULT == 240
NT35521_BACKLIGHT_MAX == 255

\* What mipi_dsi_dcs_exit_sleep_mode and its siblings may return: 0, or a
\* negative errno (-EIO and -ETIMEDOUT stand for all of them).
DsiResults == {0, -5, -110}
\* What mipi_dsi_dcs_read of one byte may return: the byte count or an errno.
DsiReadResults == {1, -5, -110}
\* The brightness values written to the backlight device.
BrightnessValues == {0, NT35521_BACKLIGHT_DEFAULT, NT35521_BACKLIGHT_MAX}

\* One operation of a callback: a GPIO write, a delay or a DSI transfer, with
\* its bytes (or its value or result) and whether MIPI_DSI_MODE_LPM was set.
POp(o, data, lpm) == [op |-> o, data |-> data, lpm |-> lpm]

\* nt35521_dcs_write_buf: mode_flags |= MIPI_DSI_MODE_LPM, then the write;
\* a failed write only logs a warning.
DcsWrite(data) == POp("dcs_write_buffer", data, TRUE)

\* nt35521_init_sequence: the writes and delays, in program order.
nt35521_init_sequence_ops ==
    << DcsWrite(<< \HF0, \H55, \HAA, \H52, \H08, \H00 >>),
       DcsWrite(<< \HFF, \HAA, \H55, \HA5, \H80 >>),
       DcsWrite(<< \H6F, \H11, \H00 >>),
       DcsWrite(<< \HF7, \H20, \H00 >>),
       DcsWrite(<< \H6F, \H01 >>),
       DcsWrite(<< \HB1, \H21 >>),
       DcsWrite(<< \HBD, \H01, \HA0, \H10, \H08, \H01 >>),
       DcsWrite(<< \HB8, \H01, \H02, \H0C, \H02 >>),
       DcsWrite(<< \HBB, \H11, \H11 >>),
       DcsWrite(<< \HBC, \H00, \H00 >>),
       DcsWrite(<< \HB6, \H02 >>),
       DcsWrite(<< \HF0, \H55, \HAA, \H52, \H08, \H01 >>),
       DcsWrite(<< \HB0, \H09, \H09 >>),
       DcsWrite(<< \HB1, \H09, \H09 >>),
       DcsWrite(<< \HBC, \H8C, \H00 >>),
       DcsWrite(<< \HBD, \H8C, \H00 >>),
       DcsWrite(<< \HCA, \H00 >>),
       DcsWrite(<< \HC0, \H04 >>),
       DcsWrite(<< \HBE, \HB5 >>),
       DcsWrite(<< \HB3, \H35, \H35 >>),
       DcsWrite(<< \HB4, \H25, \H25 >>),
       DcsWrite(<< \HB9, \H43, \H43 >>),
       DcsWrite(<< \HBA, \H24, \H24 >>),
       DcsWrite(<< \HF0, \H55, \HAA, \H52, \H08, \H02 >>),
       DcsWrite(<< \HEE, \H03 >>),
       DcsWrite(<< \HB0, \H00, \HB2, \H00, \HB3, \H00, \HB6, \H00, \HC3, \H00, \HCE, \H00,
                   \HE1, \H00, \HF3, \H01, \H11 >>),
       DcsWrite(<< \HB1, \H01, \H2E, \H01, \H5C, \H01, \H82, \H01, \HC3, \H01, \HFE, \H02,
                   \H00, \H02, \H37, \H02, \H77 >>),
       DcsWrite(<< \HB2, \H02, \HA1, \H02, \HD7, \H02, \HFE, \H03, \H2C, \H03, \H4B, \H03,
                   \H63, \H03, \H8F, \H03, \H90 >>),
       DcsWrite(<< \HB3, \H03, \H96, \H03, \H98 >>),
       DcsWrite(<< \HB4, \H00, \H81, \H00, \H8B, \H00, \H9C, \H00, \HA9, \H00, \HB5, \H00,
                   \HCB, \H00, \HDF, \H01, \H02 >>),
       DcsWrite(<< \HB5, \H01, \H1F, \H01, \H51, \H01, \H7A, \H01, \HBF, \H01, \HFA, \H01,
                   \HFC, \H02, \H34, \H02, \H76 >>),
       DcsWrite(<< \HB6, \H02, \H9F, \H02, \HD7, \H02, \HFC, \H03, \H2C, \H03, \H4A, \H03,
                   \H63, \H03, \H8F, \H03, \HA2 >>),
       DcsWrite(<< \HB7, \H03, \HB8, \H03, \HBA >>),
       DcsWrite(<< \HB8, \H00, \H01, \H00, \H02, \H00, \H0E, \H00, \H2A, \H00, \H41, \H00,
                   \H67, \H00, \H87, \H00, \HB9 >>),
       DcsWrite(<< \HB9, \H00, \HE2, \H01, \H22, \H01, \H54, \H01, \HA3, \H01, \HE6, \H01,
                   \HE7, \H02, \H24, \H02, \H67 >>),
       DcsWrite(<< \HBA, \H02, \H93, \H02, \HCD, \H02, \HF6, \H03, \H31, \H03, \H6C, \H03,
                   \HE9, \H03, \HEF, \H03, \HF4 >>),
       DcsWrite(<< \HBB, \H03, \HF6, \H03, \HF7 >>),
       DcsWrite(<< \HF0, \H55, \HAA, \H52, \H08, \H03 >>),
       DcsWrite(<< \HB0, \H22, \H00 >>),
       DcsWrite(<< \HB1, \H22, \H00 >>),
       DcsWrite(<< \HB2, \H05, \H00, \H60, \H00, \H00 >>),
       DcsWrite(<< \HB3, \H05, \H00, \H60, \H00, \H00 >>),
       DcsWrite(<< \HB4, \H05, \H00, \H60, \H00, \H00 >>),
       DcsWrite(<< \HB5, \H05, \H00, \H60, \H00, \H00 >>),
       DcsWrite(<< \HBA, \H53, \H00, \H60, \H00, \H00 >>),
       DcsWrite(<< \HBB, \H53, \H00, \H60, \H00, \H00 >>),
       DcsWrite(<< \HBC, \H53, \H00, \H60, \H00, \H00 >>),
       DcsWrite(<< \HBD, \H53, \H00, \H60, \H00, \H00 >>),
       DcsWrite(<< \HC0, \H00, \H34, \H00, \H00 >>),
       DcsWrite(<< \HC1, \H00, \H00, \H34, \H00 >>),
       DcsWrite(<< \HC2, \H00, \H00, \H34, \H00 >>),
       DcsWrite(<< \HC3, \H00, \H00, \H34, \H00 >>),
       DcsWrite(<< \HC4, \H60 >>),
       DcsWrite(<< \HC5, \HC0 >>),
       DcsWrite(<< \HC6, \H00 >>),
       DcsWrite(<< \HC7, \H00 >>),
       DcsWrite(<< \HF0, \H55, \HAA, \H52, \H08, \H05 >>),
       DcsWrite(<< \HB0, \H17, \H06 >>),
       DcsWrite(<< \HB1, \H17, \H06 >>),
       DcsWrite(<< \HB2, \H17, \H06 >>),
       DcsWrite(<< \HB3, \H17, \H06 >>),
       DcsWrite(<< \HB4, \H17, \H06 >>),
       DcsWrite(<< \HB5, \H17, \H06 >>),
       DcsWrite(<< \HB6, \H17, \H06 >>),
       DcsWrite(<< \HB7, \H17, \H06 >>),
       DcsWrite(<< \HB8, \H00 >>),
       DcsWrite(<< \HB9, \H00, \H03 >>),
       DcsWrite(<< \HBA, \H00, \H00 >>),
       DcsWrite(<< \HBB, \H02, \H03 >>),
       DcsWrite(<< \HBC, \H02, \H03 >>),
       DcsWrite(<< \HBD, \H03, \H03, \H00, \H03, \H03 >>),
       DcsWrite(<< \HC0, \H0B >>),
       DcsWrite(<< \HC1, \H09 >>),
       DcsWrite(<< \HC2, \HA6 >>),
       DcsWrite(<< \HC3, \H05 >>),
       DcsWrite(<< \HC4, \H00 >>),
       DcsWrite(<< \HC5, \H02 >>),
       DcsWrite(<< \HC6, \H22 >>),
       DcsWrite(<< \HC7, \H03 >>),
       DcsWrite(<< \HC8, \H07, \H20 >>),
       DcsWrite(<< \HC9, \H03, \H20 >>),
       DcsWrite(<< \HCA, \H01, \H60 >>),
       DcsWrite(<< \HCB, \H01, \H60 >>),
       DcsWrite(<< \HCC, \H00, \H00, \H02 >>),
       DcsWrite(<< \HCD, \H00, \H00, \H02 >>),
       DcsWrite(<< \HCE, \H00, \H00, \H02 >>),
       DcsWrite(<< \HCF, \H00, \H00, \H02 >>),
       DcsWrite(<< \HD1, \H00, \H05, \H01, \H07, \H10 >>),
       DcsWrite(<< \HD2, \H10, \H05, \H05, \H03, \H10 >>),
       DcsWrite(<< \HD3, \H20, \H00, \H43, \H07, \H10 >>),
       DcsWrite(<< \HD4, \H30, \H00, \H43, \H07, \H10 >>),
       DcsWrite(<< \HD0, \H00, \H00, \H00, \H00, \H00, \H00, \H00 >>),
       DcsWrite(<< \HD5, \H00, \H00, \H00, \H00, \H00, \H00, \H00, \H00, \H00, \H00, \H00 >>),
       DcsWrite(<< \HD6, \H00, \H00, \H00, \H00, \H00, \H00, \H00, \H00, \H00, \H00, \H00 >>),
       DcsWrite(<< \HD7, \H00, \H00, \H00, \H00, \H00, \H00, \H00, \H00, \H00, \H00, \H00 >>),
       DcsWrite(<< \HD8, \H00, \H00, \H00, \H00, \H00 >>),
       DcsWrite(<< \HE5, \H06 >>),
       DcsWrite(<< \HE6, \H06 >>),
       DcsWrite(<< \HE7, \H00 >>),
       DcsWrite(<< \HE8, \H06 >>),
       DcsWrite(<< \HE9, \H06 >>),
       DcsWrite(<< \HEA, \H06 >>),
       DcsWrite(<< \HEB, \H00 >>),
       DcsWrite(<< \HEC, \H00 >>),
       DcsWrite(<< \HED, \H30 >>),
       DcsWrite(<< \HF0, \H55, \HAA, \H52, \H08, \H06 >>),
       DcsWrite(<< \HB0, \H31, \H31 >>),
       DcsWrite(<< \HB1, \H31, \H31 >>),
       DcsWrite(<< \HB2, \H2D, \H2E >>),
       DcsWrite(<< \HB3, \H31, \H34 >>),
       DcsWrite(<< \HB4, \H29, \H2A >>),
       DcsWrite(<< \HB5, \H12, \H10 >>),
       DcsWrite(<< \HB6, \H18, \H16 >>),
       DcsWrite(<< \HB7, \H00, \H02 >>),
       DcsWrite(<< \HB8, \H08, \H31 >>),
       DcsWrite(<< \HB9, \H31, \H31 >>),
       DcsWrite(<< \HBA, \H31, \H31 >>),
       DcsWrite(<< \HBB, \H31, \H08 >>),
       DcsWrite(<< \HBC, \H03, \H01 >>),
       DcsWrite(<< \HBD, \H17, \H19 >>),
       DcsWrite(<< \HBE, \H11, \H13 >>),
       DcsWrite(<< \HBF, \H2A, \H29 >>),
       DcsWrite(<< \HC0, \H34, \H31 >>),
       DcsWrite(<< \HC1, \H2E, \H2D >>),
       DcsWrite(<< \HC2, \H31, \H31 >>),
       DcsWrite(<< \HC3, \H31, \H31 >>),
       DcsWrite(<< \HC4, \H31, \H31 >>),
       DcsWrite(<< \HC5, \H31, \H31 >>),
       DcsWrite(<< \HC6, \H2E, \H2D >>),
       DcsWrite(<< \HC7, \H31, \H34 >>),
       DcsWrite(<< \HC8, \H29, \H2A >>),
       DcsWrite(<< \HC9, \H17, \H19 >>),
       DcsWrite(<< \HCA, \H11, \H13 >>),
       DcsWrite(<< \HCB, \H03, \H01 >>),
       DcsWrite(<< \HCC, \H08, \H31 >>),
       DcsWrite(<< \HCD, \H31, \H31 >>),
       DcsWrite(<< \HCE, \H31, \H31 >>),
       DcsWrite(<< \HCF, \H31, \H08 >>),
       DcsWrite(<< \HD0, \H00, \H02 >>),
       DcsWrite(<< \HD1, \H12, \H10 >>),
       DcsWrite(<< \HD2, \H18, \H16 >>),
       DcsWrite(<< \HD3, \H2A, \H29 >>),
       DcsWrite(<< \HD4, \H34, \H31 >>),
       DcsWrite(<< \HD5, \H2D, \H2E >>),
       DcsWrite(<< \HD6, \H31, \H31 >>),
       DcsWrite(<< \HD7, \H31, \H31 >>),
       DcsWrite(<< \HE5, \H31, \H31 >>),
       DcsWrite(<< \HE6, \H31, \H31 >>),
       DcsWrite(<< \HD8, \H00, \H00, \H00, \H00, \H00 >>),
       DcsWrite(<< \HD9, \H00, \H00, \H00, \H00, \H00 >>),
       DcsWrite(<< \HE7, \H00 >>),
       DcsWrite(<< \H6F, \H02 >>),
       DcsWrite(<< \HF7, \H47 >>),
       DcsWrite(<< \H6F, \H0A >>),
       DcsWrite(<< \HF7, \H02 >>),
       DcsWrite(<< \H6F, \H17 >>),
       DcsWrite(<< \HF4, \H60 >>),
       DcsWrite(<< \H6F, \H01 >>),
       DcsWrite(<< \HF9, \H46 >>),
       DcsWrite(<< \H6F, \H11 >>),
       DcsWrite(<< \HF3, \H01 >>),
       DcsWrite(<< \H35, \H00 >>),
       DcsWrite(<< \HF0, \H55, \HAA, \H52, \H08, \H00 >>),
       DcsWrite(<< \HD9, \H02, \H03, \H00 >>),
       DcsWrite(<< \HF0, \H55, \HAA, \H52, \H00, \H00 >>),
       DcsWrite(<< \HF0, \H55, \HAA, \H52, \H08, \H00 >>),
       DcsWrite(<< \HB1, \H6C, \H21 >>),
       DcsWrite(<< \HF0, \H55, \HAA, \H52, \H00, \H00 >>),
       DcsWrite(<< \H35, \H00 >>),
       DcsWrite(<< \H11, \H00 >>),
       POp("msleep", << 78 >>, TRUE),
       DcsWrite(<< \H29, \H00 >>),
       POp("msleep", << 1 >>, TRUE),
       DcsWrite(<< \H53, \H24 >>) >>

\* The reset pulse of nt35521_prepare: high 20 ms, low 1 ms, high 20 ms.
ResetPulse ==
    << POp("gpiod_set_value", << 1 >>, "LPM" \in mode_flags),
       POp("usleep_range", << 20000 >>, "LPM" \in mode_flags),
       POp("gpiod_set_value", << 0 >>, "LPM" \in mode_flags),
       POp("usleep_range", << 1000 >>, "LPM" \in mode_flags),
       POp("gpiod_set_value", << 1 >>, "LPM" \in mode_flags),
       POp("usleep_range", << 20000 >>, "LPM" \in mode_flags) >>

\* A mutant of nt35521_read_id: the failure of the read is dropped.
nt35521_read_id_unchecked(r) == 0
\* ret = mipi_dsi_dcs_read(...); if (ret < 0) return ret; return 0;
nt35521_read_id(r) == IF r < 0 THEN r ELSE 0

\* A mutant of update_status_flags: low-power mode is not restored.
update_status_flags_hs(prep, flags) == IF prep THEN flags \ {"LPM"} ELSE flags
\* dsi->mode_flags after nt35521_backlight_update_status: cleared for the
\* write and set again after it, or untouched when the panel is not prepared.
update_status_flags(prep, flags) ==
    IF prep THEN (flags \ {"LPM"}) \cup {"LPM"} ELSE flags

\* What nt35521_backlight_update_status sends: one brightness write
\* { MIPI_DCS_SET_DISPLAY_BRIGHTNESS, props.brightness } in high-speed mode.
update_status_ops(prep, b) ==
    IF prep THEN << POp("dcs_write_buffer", << \H51, b >>, FALSE) >> ELSE << >>

update_status_ret(prep) == IF prep THEN 0 ELSE -ENXIO

\* backlight_enable and backlight_disable set props.power and then call the
\* update_status callback, whose return value they drop.
backlight_ops(name) ==
    << POp(name, << >>, "LPM" \in mode_flags) >>
    \o update_status_ops(ctx_prepared, brightness)

nt35521_probe(gpio, fail) ==
    /\ probed = "no"
    /\ panel_call' = "probe"
    /\ panel_log' = << >>
    /\ IF fail = "nomem"
       THEN /\ probed' = "failed"
            /\ panel_ret' = -ENOMEM
            /\ UNCHANGED << reset_gpio, gpio_value, mode_flags, brightness, bl_power >>
       ELSE /\ reset_gpio' = (gpio = "gpio")
            /\ gpio_value' = 0
            /\ mode_flags' = {"VIDEO", "VIDEO_BURST", "CLOCK_NON_CONTINUOUS", "LPM"}
            /\ IF fail = "backlight"
               THEN /\ probed' = "failed"
                    /\ panel_ret' = -ENOMEM
                    /\ UNCHANGED << brightness, bl_power >>
               ELSE /\ brightness' = NT35521_BACKLIGHT_DEFAULT
                    /\ bl_power' = "POWERDOWN"
                    /\ probed' = IF fail = "attach" THEN "failed" ELSE "ok"
                    /\ panel_ret' = IF fail = "attach" THEN -ENODEV ELSE 0
    /\ UNCHANGED << ctx_prepared, ctx_enabled >>
    /\ UNCHANGED << cpu_ops_vars, init_vars, pll_vars >>

nt35521_prepare(r) ==
    /\ probed = "ok"
    /\ panel_call' = "prepare"
    /\ IF ctx_prepared
       THEN /\ panel_ret' = 0
            /\ panel_log' = << >>
            /\ UNCHANGED << gpio_value, mode_flags, ctx_prepared >>
       ELSE /\ gpio_value' = IF reset_gpio THEN 1 ELSE gpio_value
            /\ panel_ret' = nt35521_read_id(r)
            /\ IF nt35521_read_id(r) # 0
               THEN /\ panel_log' = (IF reset_gpio THEN ResetPulse ELSE << >>)
                                    \o << POp("dcs_read", << MCS_CMD_READ_ID, r >>,
                                              "LPM" \in mode_flags) >>
                    /\ UNCHANGED << mode_flags, ctx_prepared >>
               ELSE /\ panel_log' = (IF reset_gpio THEN ResetPulse ELSE << >>)
                                    \o << POp("dcs_read", << MCS_CMD_READ_ID, r >>,
                                              "LPM" \in mode_flags) >>
                                    \o nt35521_init_sequence_ops
                    /\ mode_flags' = mode_flags \cup {"LPM"}
                    /\ ctx_prepared' = TRUE
    /\ UNCHANGED << probed, reset_gpio, ctx_enabled, bl_power, brightness >>
    /\ UNCHANGED << cpu_ops_vars, init_vars, pll_vars >>

nt35521_unprepare ==
    /\ probed = "ok"
    /\ panel_call' = "unprepare"
    /\ panel_ret' = 0
    /\ IF ~ctx_prepared
       THEN /\ panel_log' = << >>
            /\ UNCHANGED << gpio_value, ctx_prepared >>
       ELSE /\ panel_log' = IF reset_gpio
                            THEN << POp("gpiod_set_value", << 1 >>, "LPM" \in mode_flags),
                                    POp("msleep", << 20 >>, "LPM" \in mode_flags) >>
                            ELSE << >>
            /\ gpio_value' = IF reset_gpio THEN 1 ELSE gpio_value
            /\ ctx_prepared' = FALSE
    /\ UNCHANGED << probed, reset_gpio, ctx_enabled, bl_power, brightness, mode_flags >>
    /\ UNCHANGED << cpu_ops_vars, init_vars, pll_vars >>

\* A mutant of nt35521_enable_ret: the result of display-on is dropped.
nt35521_enable_ret_first_only(r1, r2) == IF r1 # 0 THEN r1 ELSE 0
\* What nt35521_enable returns on a panel that is not enabled: r1 and r2 are
\* the results of exit-sleep and of display-on.
nt35521_enable_ret(r1, r2) == IF r1 # 0 THEN r1 ELSE IF r2 # 0 THEN r2 ELSE 0

nt35521_enable(r1, r2) ==
    /\ probed = "ok"
    /\ panel_call' = "enable"
    /\ IF ctx_enabled
       THEN /\ panel_ret' = 0
            /\ panel_log' = << >>
            /\ UNCHANGED << ctx_enabled, bl_power, mode_flags >>
       ELSE /\ panel_ret' = nt35521_enable_ret(r1, r2)
            /\ IF nt35521_enable_ret(r1, r2) # 0
               THEN /\ panel_log' =
                           << POp("exit_sleep_mode", << r1 >>, "LPM" \in mode_flags) >>
                           \o (IF r1 # 0 THEN << >>
                               ELSE << POp("msleep", << 78 >>, "LPM" \in mode_flags),
                                       POp("set_display_on", << r2 >>,
                                           "LPM" \in mode_flags) >>)
                    /\ UNCHANGED << ctx_enabled, bl_power, mode_flags >>
               ELSE /\ panel_log' =
                           << POp("exit_sleep_mode", << r1 >>, "LPM" \in mode_flags),
                              POp("msleep", << 78 >>, "LPM" \in mode_flags),
                              POp("set_display_on", << r2 >>, "LPM" \in mode_flags),
                              POp("msleep", << 1 >>, "LPM" \in mode_flags) >>
                           \o backlight_ops("backlight_enable")
                    /\ bl_power' = "UNBLANK"
                    /\ mode_flags' = update_status_flags(ctx_prepared, mode_flags)
                    /\ ctx_enabled' = TRUE
    /\ UNCHANGED << probed, reset_gpio, gpio_value, ctx_prepared, brightness >>
    /\ UNCHANGED << cpu_ops_vars, init_vars, pll_vars >>

\* What nt35521_disable returns on an enabled panel: r1 and r2 are the
\* results of display-off and of enter-sleep.
nt35521_disable_ret(r1, r2) == IF r1 # 0 THEN r1 ELSE IF r2 # 0 THEN r2 ELSE 0

nt35521_disable(r1, r2) ==
    /\ probed = "ok"
    /\ panel_call' = "disable"
    /\ IF ~ctx_enabled
       THEN /\ panel_ret' = 0
            /\ panel_log' = << >>
            /\ UNCHANGED << ctx_enabled, bl_power, mode_flags >>
       ELSE /\ bl_power' = "POWERDOWN"
            /\ mode_flags' = update_status_flags(ctx_prepared, mode_flags)
            /\ panel_ret' = nt35521_disable_ret(r1, r2)
            /\ panel_log' =
                   backlight_ops("backlight_disable")
                   \o << POp("set_display_off", << r1 >>,
                             "LPM" \in update_status_flags(ctx_prepared, mode_flags)) >>
                   \o (IF r1 # 0 THEN << >>
                       ELSE << POp("enter_sleep_mode", << r2 >>,
                                   "LPM" \in update_status_flags(ctx_prepared,
                                                                 mode_flags)) >>)
            /\ ctx_enabled' = (nt35521_disable_ret(r1, r2) # 0)
    /\ UNCHANGED << probed, reset_gpio, gpio_value, ctx_prepared, brightness >>
    /\ UNCHANGED << cpu_ops_vars, init_vars, pll_vars >>

\* The backlight core stores the requested brightness b in props.brightness
\* and calls the update_status callback.
nt35521_backlight_update_status(b) ==
    /\ probed = "ok"
    /\ panel_call' = "backlight_update_status"
    /\ brightness' = b
    /\ panel_ret' = update_status_ret(ctx_prepared)
    /\ panel_log' = update_status_ops(ctx_prepared, b)
    /\ mode_flags' = update_status_flags(ctx_prepared, mode_flags)
    /\ UNCHANGED << probed, reset_gpio, gpio_value, ctx_prepared, ctx_enabled, bl_power >>
    /\ UNCHANGED << cpu_ops_vars, init_vars, pll_vars >>

NextPanel ==
    \/ \E gpio \in {"gpio", "null", "err"},
          fail \in {"none", "nomem", "backlight", "attach"} : nt35521_probe(gpio, fail)
    \/ \E r \in DsiReadResults : nt35521_prepare(r)
    \/ nt35521_unprepare
    \/ \E r1, r2 \in DsiResults : nt35521_enable(r1, r2)
    \/ \E r1, r2 \in DsiResults : nt35521_disable(r1, r2)
    \/ \E b \in BrightnessValues : nt35521_backlight_update_status(b)

SpecPanel == Init /\ [][NextPanel]_vars

(***************************************************************************)
(* The A53 PLL driver (two copies in the file, with the same tables).      *)
(***************************************************************************)
MaxOverrun == 2

\* One struct pll_freq_tbl entry, and the all-zero entry "{ }".
Entry(f, l, m, n, ibits) == [freq |-> f, l |-> l, m |-> m, n |-> n, ibits |-> ibits]
Sentinel == Entry(0, 0, 0, 0, 0)

msm8916_freq ==
    << Entry(998400000, 52, 0, 1, 0),
       Entry(1094400000, 57, 0, 1, 0),
       Entry(1152000000, 62, 0, 1, 0),
       Entry(1209600000, 63, 0, 1, 0),
       Entry(1248000000, 65, 0, 1, 0),
       Entry(1363200000, 71, 0, 1, 0),
       Entry(1401600000, 73, 0, 1, 0),
       Sentinel >>

msm8939_c0_freq ==
    << Entry(998400000, 52, 0, 1, 0),
       Entry(1113600000, 58, 0, 1, 0),
       Entry(1209600000, 63, 0, 1, 0) >>

msm8939_c1_freq ==
    << Entry(652800000, 34, 0, 1, 0),
       Entry(691200000, 36, 0, 1, 0),
       Entry(729600000, 38, 0, 1, 0),
       Entry(806400000, 42, 0, 1, 0),
       Entry(844800000, 44, 0, 1, 0),
       Entry(883200000, 46, 0, 1, 0),
       Entry(960000000, 50, 0, 1, 0),
       Entry(998400000, 52, 0, 1, 0),
       Entry(1036800000, 54, 0, 1, 0),
       Entry(1113600000, 58, 0, 1, 0),
       Entry(1209600000, 63, 0, 1, 0),
       Entry(1190400000, 62, 0, 1, 0),
       Entry(1267200000, 66, 0, 1, 0),
       Entry(1344000000, 70, 0, 1, 0),
       Entry(1363200000, 71, 0, 1, 0),
       Entry(1420800000, 74, 0, 1, 0),
       Entry(1459200000, 76, 0, 1, 0),
       Entry(1497600000, 78, 0, 1, 0),
       Entry(1536000000, 80, 0, 1, 0),
       Entry(1574400000, 82, 0, 1, 0),
       Entry(1612800000, 84, 0, 1, 0),
       Entry(1632000000, 85, 0, 1, 0),
       Entry(1651200000, 86, 0, 1, 0),
       Entry(1689600000, 88, 0, 1, 0),
       Entry(1708800000, 89, 0, 1, 0) >>

msm8939_cci_freq ==
    << Entry(403200000, 21, 0, 1, 0),
       Entry(595200000, 31, 0, 1, 0) >>

FreqTable(name) ==
    CASE name = "msm8916_freq"     -> msm8916_freq
      [] name = "msm8939_c0_freq"  -> msm8939_c0_freq
      [] name = "msm8939_c1_freq"  -> msm8939_c1_freq
      [] name = "msm8939_cci_freq" -> msm8939_cci_freq
      [] OTHER                     -> << >>

\* qcom_a53pll_match_table: the table of the pll_data a compatible selects.
MatchTable(compat) ==
    CASE compat = "qcom,msm8916-a53pll"     -> "msm8916_freq"
      [] compat = "qcom,msm8939-a53pll-c0"  -> "msm8939_c0_freq"
      [] compat = "qcom,msm8939-a53pll-c1"  -> "msm8939_c1_freq"
      [] compat = "qcom,msm8939-a53pll-cci" -> "msm8939_cci_freq"
      [] OTHER                              -> "none"

Compatibles == {"qcom,msm8916-a53pll", "qcom,msm8939-a53pll-c0",
                "qcom,msm8939-a53pll-c1", "qcom,msm8939-a53pll-cci", "other"}

\* The second copy gives the three msm8939 entries an opp_table.
HasOppTable(copy, compat) == copy = 2 /\ compat # "qcom,msm8916-a53pll"

\* The steps of qcom_a53pll_probe that can fail, for a matched device.
ProbeFailures(copy, compat) ==
    {"none", "kzalloc", "ioremap", "regmap", "register", "provider"}
    \cup (IF HasOppTable(copy, compat) THEN {"regulator", "powerh"} ELSE {})

\* msm8939_c0_init: the PLL is disabled and programmed with freq_tbl[0].
msm8939_c0_init(tbl) ==
    << [reg |-> "mode_reg", val |-> 0],
       [reg |-> "l_reg", val |-> tbl[1].l],
       [reg |-> "m_reg", val |-> tbl[1].m],
       [reg |-> "n_reg", val |-> tbl[1].n],
       [reg |-> "user_reg", val |-> \H0100000f],
       [reg |-> "config_reg", val |-> \H4c015765] >>

qcom_a53pll_probe(copy, compat, fail) ==
    /\ pll_copy = 0
    /\ pll_copy' = copy
    /\ IF MatchTable(compat) = "none"
       THEN /\ fail = "none"
            /\ pll_ret' = -ENODEV
            /\ UNCHANGED << pll_tbl, pll_registered, pll_io >>
       ELSE /\ fail \in ProbeFailures(copy, compat)
            /\ IF fail \in {"kzalloc", "ioremap", "regmap"}
               THEN /\ pll_ret' = -ENOMEM
                    /\ UNCHANGED << pll_tbl, pll_registered, pll_io >>
               ELSE /\ pll_tbl' = MatchTable(compat)
                    /\ IF fail \in {"regulator", "powerh"}
                       THEN /\ pll_ret' = -ENOMEM
                            /\ UNCHANGED << pll_registered, pll_io >>
                       ELSE /\ pll_io' = IF compat = "qcom,msm8939-a53pll-c0"
                                         THEN msm8939_c0_init(FreqTable(MatchTable(compat)))
                                         ELSE << >>
                            /\ pll_ret' = IF fail = "none" THEN 0 ELSE -ENOMEM
                            /\ pll_registered' = (fail = "none")
    /\ UNCHANGED << pll_rate, pll_pos, pll_found, pll_beyond >>
    /\ UNCHANGED << cpu_ops_vars, init_vars, panel_vars >>

\* The rates asked of the PLL: below, inside and above the tables.
PllRates == {400000000, 1100000000, 1800000000}
\* What a read past the end of an array may yield.
BeyondValues == {0, 1, 2000000000}

\* A scan of pll->freq_tbl for a rate starts at the first entry.
ScanStart(rate) ==
    /\ pll_registered
    /\ pll_found # "scanning"
    /\ pll_rate' = rate
    /\ pll_pos' = 1
    /\ pll_found' = "scanning"
    /\ pll_beyond' = 0
    /\ UNCHANGED << pll_copy, pll_tbl, pll_registered, pll_ret, pll_io >>
    /\ UNCHANGED << cpu_ops_vars, init_vars, panel_vars >>

\* The frequency the scan reads at its position: the entry's, or, past the
\* end of the array, whatever v the memory behind the table holds.
FreqAt(pos, v) ==
    IF pos <= Len(FreqTable(pll_tbl)) THEN FreqTable(pll_tbl)[pos].freq ELSE v

\* for (; f->freq; f++) if (rate <= f->freq) return f; return NULL;
ScanStep(v) ==
    /\ pll_found = "scanning"
    /\ pll_pos <= Len(FreqTable(pll_tbl)) + MaxOverrun
    /\ pll_beyond' = IF pll_pos > Len(FreqTable(pll_tbl)) THEN pll_beyond + 1 ELSE pll_beyond
    /\ IF FreqAt(pll_pos, v) = 0
       THEN /\ pll_found' = "null"
            /\ pll_pos' = pll_pos
       ELSE IF pll_rate <= FreqAt(pll_pos, v)
            THEN /\ pll_found' = "entry"
                 /\ pll_pos' = pll_pos
            ELSE /\ pll_found' = "scanning"
                 /\ pll_pos' = pll_pos + 1
    /\ UNCHANGED << pll_copy, pll_tbl, pll_registered, pll_ret, pll_io, pll_rate >>
    /\ UNCHANGED << cpu_ops_vars, init_vars, panel_vars >>

NextPll ==
    \/ \E copy \in {1, 2}, compat \in Compatibles,
          fail \in {"none", "kzalloc", "ioremap", "regmap", "regulator", "powerh",
                    "register", "provider"} : qcom_a53pll_probe(copy, compat, fail)
    \/ \E rate \in PllRates : ScanStart(rate)
    \/ \E v \in BeyondValues : ScanStep(v)

SpecPll == Init /\ [][NextPll]_vars

(***************************************************************************)
(* Properties.                                                             *)
(***************************************************************************)
Ops(p, kinds) == {i \in DOMAIN io[p] : io[p][i].op \in kinds}
WritesTo(p, regs, before) ==
    {i \in Ops(p, {"writel"}) : io[p][i].obj \in regs /\ i < before}

L2Regs == {"L2_PWR_CTL", "L2_PWR_CTL_OVERRIDE", "L2_CORE_CBCR"}
CpuRegs == {"CPU_PWR_CTL", "CPU_PWR_GATE_CTL"}

\* The call went through secondary_pen_release and has returned from it.
Woke(p) == pc[p] = "done" /\ Ops(p, {"raw_spin_unlock"}) # {}
\* The requested core has not called msm_cpu_postboot so far.
NeverArrived(c) == c \notin SecondaryCpus \/ sec[c] \in {"pen", "booting"}
\* The status read of the call found bit 9 set / clear.
StatusReadSet(p) ==
    \E i \in Ops(p, {"readl"}) : BitSet(io[p][i].val, L2_PWR_STATUS_BIT)
StatusReadClear(p) ==
    \E i \in Ops(p, {"readl"}) : ~BitSet(io[p][i].val, L2_PWR_STATUS_BIT)

\* C1: a wake request whose core called msm_cpu_postboot before the deadline
\* returns 0, and one whose core called it only after the deadline returns
\* -ENOSYS.
C1_ArrivalDecidesResult ==
    \A p \in Primaries :
        Woke(p) =>
            /\ arrival[p] = "intime" => ret[p] = 0
            /\ arrival[p] = "late" => ret[p] = -ENOSYS

\* C2: at most one caller is between raw_spin_lock and raw_spin_unlock of
\* secondary_pen_release, it holds boot_lock, and while it polls the register
\* holds its own id or the sentinel, never another request's id.
C2_OneWakeRequestAtATime ==
    /\ Cardinality({p \in Primaries : InCritical(p)}) <= 1
    /\ \A p \in Primaries :
          InCritical(p) =>
             /\ boot_lock = 1
             /\ pc[p] # "publish" =>
                   pen_release \in {INVALID_HWID, cpu_logical_map(cpu[p])}

C2_Witness ==
    \E p, q \in Primaries :
        /\ pc[p] = "poll" /\ pc[q] = "lock"
        /\ cpu[p] # cpu[q]
        /\ pen_release = cpu_logical_map(cpu[p])

\* C3: a wake request returns 0 (core ONLINE) only if the requested core's
\* own msm_cpu_postboot wrote the sentinel during that request.
C3_OnlineOnlyByOwnArrival ==
    \A p \in Primaries :
        (Woke(p) /\ CoreStateAfterWake(ret[p]) = "ONLINE") => arrival[p] # "none"

\* C4: a wake request whose core never calls msm_cpu_postboot leaves its
\* loop, releases boot_lock and returns -ENOSYS, and the core is BOOT_FAILED.
C4_NoArrivalMeansTimeout ==
    \A p \in Primaries :
        (Woke(p) /\ NeverArrived(cpu[p])) =>
            /\ ret[p] = -ENOSYS
            /\ CoreStateAfterWake(ret[p]) = "BOOT_FAILED"

\* C5: a cold_boot_done flag that is true stays true, so each flag goes
\* from false to true at most once.
C5_ColdBootDoneSetOnce ==
    [][\A c \in PossibleCpus : cold_boot_done[c] => cold_boot_done'[c]]_vars

C5_Witness ==
    \E p \in Primaries :
        /\ Woke(p) /\ ret[p] = -ENOSYS
        /\ cpu[p] # 0 /\ ~cold[p]
        /\ cold_boot_done[cpu[p]]

\* C6: the core power-rail sequence runs at most once per cpu, and a boot
\* that finds cold_boot_done true makes no device-tree lookup, mapping,
\* register read or register write: it is in secondary_pen_release.
C6_PowerSequenceOnce ==
    /\ \A c \in Cpus : pwr_runs[c] <= 1
    /\ \A p \in Primaries :
          (pc[p] # "idle" /\ ~cold[p]) =>
             /\ Ops(p, {"readl", "writel", "of_iomap", "of_iomap_failed", "of_get"}) = {}
             /\ pc[p] \in {"lock", "publish", "loop", "poll", "unlock", "ret", "done"}

C6_Witness ==
    \E p \in Primaries :
        /\ pc[p] = "poll" /\ ~cold[p]
        /\ cpu[p] # 0 /\ pwr_runs[cpu[p]] = 1
        /\ sec[cpu[p]] = "booting"

\* C7: when the status read has bit 9 set, the call writes no L2 register,
\* the read is its only access to the L2 block, the mapping is released right
\* after it, and msm_unclamp_secondary_arm_cpu goes on to the ACC block.
C7_L2SkipWritesNothing ==
    \A p \in Primaries :
        \A i \in Ops(p, {"readl"}) :
            BitSet(io[p][i].val, L2_PWR_STATUS_BIT) =>
               /\ WritesTo(p, L2Regs, Len(io[p]) + 1) = {}
               /\ Ops(p, {"readl"}) = {i}
               /\ i < Len(io[p])
               /\ io[p][i + 1] = Op("iounmap", "l2pd", 0)
               /\ i + 1 < Len(io[p]) => io[p][i + 2].obj = "acc"
               /\ pc[p] # "l2_seq"

C7_Witness ==
    \E p \in Primaries : pc[p] = "mark" /\ StatusReadSet(p)

\* C8: a cold boot whose status read found the L2 unpowered publishes the
\* core's id only after the 10 L2 writes and the 7 core writes, with
\* cold_boot_done set; if the core then arrives before the deadline the call
\* returns 0 and the core is ONLINE.
C8_PublishAfterPowerOn ==
    \A p \in Primaries :
        \A s \in Ops(p, {"store"}) :
            (cold[p] /\ StatusReadClear(p)) =>
               /\ Cardinality(WritesTo(p, L2Regs, s)) = 10
               /\ Cardinality(WritesTo(p, CpuRegs, s)) = 7
               /\ \A i \in WritesTo(p, L2Regs, s), j \in WritesTo(p, CpuRegs, s) : i < j
               /\ cold_boot_done[cpu[p]]
               /\ (Woke(p) /\ arrival[p] = "intime") =>
                     ret[p] = 0 /\ CoreStateAfterWake(ret[p]) = "ONLINE"

C8_Witness ==
    \E p \in Primaries :
        /\ Woke(p) /\ cold[p] /\ StatusReadClear(p)
        /\ arrival[p] = "intime" /\ ret[p] = 0

\* C9: msm_cpu_postboot takes boot_lock and returns only while no caller is
\* between lock and unlock of secondary_pen_release, and its own lock and
\* unlock steps change neither the register nor a cold_boot_done flag.
C9_PostbootRendezvous ==
    [][\A c \in SecondaryCpus :
          ((sec[c] = "wrote" /\ sec'[c] = "locked")
             \/ (sec[c] = "locked" /\ sec'[c] = "online")) =>
                /\ \A p \in Primaries : ~InCritical(p)
                /\ pen_release' = pen_release
                /\ cold_boot_done' = cold_boot_done]_vars

C9_Witness ==
    \E c \in SecondaryCpus, p \in Primaries :
        sec[c] = "wrote" /\ InCritical(p) /\ boot_lock = 1

\* C10: a started wake request returns, and a started msm_cpu_postboot
\* returns.
C10_BothTerminate ==
    /\ \A p \in Primaries :
          (pc[p] \in {"lock", "publish", "loop", "poll", "unlock", "ret"}) ~> (pc[p] = "done")
    /\ \A c \in SecondaryCpus :
          (sec[c] \in {"wrote", "locked"}) ~> (sec[c] = "online")

C10_Witness ==
    \E c \in SecondaryCpus, p \in Primaries :
        /\ sec[c] = "wrote" /\ cpu[p] = c
        /\ pc[p] = "poll" /\ arrival[p] = "intime"

\* A wake request is pending: between its publish and its lock release.
WakePending(p) == pc[p] \in {"loop", "poll", "unlock"}

\* C11: a core's id is written to the register by a caller that holds
\* boot_lock, the sentinel is written by a secondary that has not taken the
\* lock, and while a wake request for a core is pending the only other writer
\* of the register is that core's own msm_cpu_postboot.
C11_SingleWriterByProtocol ==
    [][/\ \A p \in Primaries :
             (pc[p] = "publish" /\ pc'[p] = "loop") =>
                /\ boot_lock = 1
                /\ pen_release' = cpu_logical_map(cpu[p])
                /\ \A q \in Primaries \ {p} : ~InCritical(q)
       /\ \A c \in SecondaryCpus :
             (sec[c] = "booting" /\ sec'[c] = "wrote") =>
                /\ pen_release' = INVALID_HWID
                /\ boot_lock' = boot_lock
                /\ \A p \in Primaries : WakePending(p) => cpu[p] = c]_vars

\* C12: whenever no caller is between raw_spin_lock and raw_spin_unlock of
\* secondary_pen_release (before the first request, and after a request has
\* returned with 0 or with -ENOSYS) the register holds INVALID_HWID.
C12_SentinelWhenNoWakePending ==
    (\A p \in Primaries : ~InCritical(p)) => pen_release = INVALID_HWID

\* The positions of a log that hold an operation of the given kinds.
OpsIn(log, kinds) == {i \in DOMAIN log : log[i].op \in kinds}
\* The call's mapping of the given block failed.
MapFailed(p, blk) ==
    \E i \in Ops(p, {"of_iomap_failed"}) : io[p][i].obj = blk

\* C13: a cold msm_cpu_boot in which one of the four device-tree lookups
\* finds nothing returns -ENODEV with no mapping, register read or register
\* write, no lock and no publish, leaves the core's cold_boot_done false and
\* changes nothing that is shared.
C13_NoTopologyNoAccess ==
    [][\A p \in Primaries :
          (/\ pc[p] = "idle" /\ pc'[p] # "idle" /\ cold'[p]
           /\ Cardinality(OpsIn(io'[p], {"of_get"})) < 4) =>
              /\ pc'[p] = "done"
              /\ ret'[p] = -ENODEV
              /\ OpsIn(io'[p], {"of_iomap", "of_iomap_failed", "readl", "writel",
                                "raw_spin_lock", "store", "sev"}) = {}
              /\ cold_boot_done'[cpu'[p]] = FALSE
              /\ shared' = shared]_vars

C13_Witness ==
    \E p \in Primaries :
        /\ pc[p] = "done" /\ ret[p] = -ENODEV /\ cold[p]
        /\ Cardinality(Ops(p, {"of_get"})) = 3
        /\ cold_boot_done[cpu[p]] = FALSE
        /\ \E c \in SecondaryCpus : c # cpu[p] /\ cold_boot_done[c] /\ sec[c] = "online"

\* C14: a call in which a mapping failed returns -ENOMEM with cold_boot_done
\* false, no core power-rail write, no lock and no publish; when it was the
\* L2 block no register was read or written, and when it was the ACC block
\* the L2 writes already issued stand and the cache stays powered.  (Cpu 0's
\* flag is the one msm_cpu_prepare sets: the call itself leaves it alone.)
C14_MapFailureAborts ==
    \A p \in Primaries :
        (pc[p] # "idle" /\ Ops(p, {"of_iomap_failed"}) # {}) =>
            /\ pc[p] = "done"
            /\ ret[p] = -ENOMEM
            /\ cpu[p] # 0 => cold_boot_done[cpu[p]] = FALSE
            /\ WritesTo(p, CpuRegs, Len(io[p]) + 1) = {}
            /\ Ops(p, {"raw_spin_lock", "store", "sev"}) = {}
            /\ MapFailed(p, "l2pd") => Ops(p, {"readl", "writel"}) = {}
            /\ (MapFailed(p, "acc") /\ StatusReadClear(p)) =>
                  /\ Cardinality(WritesTo(p, L2Regs, Len(io[p]) + 1)) = 10
                  /\ L2Powered(l2_status[L2Domain(cpu[p])])

C14_Witness ==
    \E p \in Primaries :
        /\ pc[p] = "done" /\ ret[p] = -ENOMEM /\ cpu[p] # 0
        /\ MapFailed(p, "acc") /\ StatusReadClear(p)
        /\ Cardinality(WritesTo(p, L2Regs, Len(io[p]) + 1)) = 10

\* Nothing has been done to bring the cpu up: no call for it is in progress,
\* its power sequence has not run and its id is not in the register.
NeverAttempted(c) ==
    /\ \A p \in Primaries : pc[p] # "idle" => cpu[p] # c
    /\ c \in Cpus => pwr_runs[c] = 0 /\ cold_boot_done[c] = FALSE
    /\ pen_release # cpu_logical_map(c) \/ c \notin Cpus

\* C15: a msm_cpu_prepare call that fails (firmware rejection, or a hardware
\* id with bits outside the mask, for which the firmware is not called)
\* returns -ENOSYS and changes no cold_boot_done flag, not the register and
\* not the lock; a cpu whose call failed is never attempted.
C15_PrepareFailureTouchesNothing ==
    /\ [][\A c \in PreparedCpus :
             (prepared[c] = "none" /\ prepared'[c] = "failed") =>
                /\ \E scm_ok \in BOOLEAN :
                      /\ msm_cpu_prepare_ret(c, scm_ok) = -ENOSYS
                      /\ ScmCalled(c) => ~scm_ok
                /\ cold_boot_done' = cold_boot_done
                /\ pen_release' = pen_release
                /\ boot_lock' = boot_lock
                /\ pc' = pc /\ io' = io /\ pwr_runs' = pwr_runs]_vars
    /\ [](\A c \in PreparedCpus :
             /\ prepared[c] = "failed" => NeverAttempted(c)
             /\ ~ScmCalled(c) => prepared[c] # "ok")

C15_Witness ==
    \E c, d \in SecondaryCpus :
        /\ prepared[c] = "failed" /\ prepared[MaxCpu + 1] = "failed"
        /\ prepared[d] = "ok" /\ sec[d] = "online"
        /\ cold_boot_done[0] /\ cold_boot_done[d]

\* The steps of secondary_pen_release that the call has made, by name.
IsWakeOp(o) == o.op \in {"raw_spin_lock", "store", "smp_wmb", "flush_dcache",
                         "sev", "poll_end", "raw_spin_unlock"}
WakeOps(p) ==
    LET w == SelectSeq(io[p], IsWakeOp) IN [i \in DOMAIN w |-> w[i].op]
IsPrefix(s, t) == Len(s) <= Len(t) /\ SubSeq(t, 1, Len(s)) = s

\* C16: a wake request locks, stores the id, issues the write barrier, flushes
\* the word, signals the event, polls and unlocks, in this order and once
\* each; the lock is held from the lock to the unlock, on the success path as
\* on the timeout path.
C16_WakeRequestOrder ==
    LET steps == << "raw_spin_lock", "store", "smp_wmb", "flush_dcache",
                    "sev", "poll_end", "raw_spin_unlock" >> IN
    \A p \in Primaries :
        /\ IsPrefix(WakeOps(p), steps)
        /\ Woke(p) => WakeOps(p) = steps
        /\ (pc[p] \in {"ret", "done"} /\ Ops(p, {"raw_spin_lock"}) # {}) =>
              /\ Ops(p, {"raw_spin_unlock"}) # {}
              /\ boot_lock = 0 \/ \E c \in SecondaryCpus : sec[c] = "locked"
        /\ (Ops(p, {"raw_spin_lock"}) # {} /\ Ops(p, {"raw_spin_unlock"}) = {}) =>
              boot_lock = 1
        /\ \A i \in Ops(p, {"store"}) :
              \A j \in Ops(p, {"raw_spin_lock"}) : j < i

C16_Witness ==
    \E p \in Primaries :
        /\ Woke(p) /\ ret[p] = -ENOSYS
        /\ \E i \in Ops(p, {"poll_end"}) : io[p][i].obj = "timeout"

\* The writes a call has made to the core's ACC block, in program order.
IsCpuWrite(o) == o.op = "writel" /\ o.obj \in CpuRegs
CpuWrites(p) == SelectSeq(io[p], IsCpuWrite)

\* C17: when the core power-rail sequence has run, the call made exactly the
\* 7 writes 0x33, gate 0x10000001, 0x31, 0x39, 0x20038, 0x20008, 0x20088 in
\* this order, each followed at once by a memory barrier, and every L2 write
\* of the call came before the first of them.
C17_CoreSequenceOrder ==
    \A p \in Primaries :
        CpuWrites(p) # << >> =>
            /\ CpuWrites(p) = << W("CPU_PWR_CTL", \H33),
                                 W("CPU_PWR_GATE_CTL", \H10000001),
                                 W("CPU_PWR_CTL", \H31),
                                 W("CPU_PWR_CTL", \H39),
                                 W("CPU_PWR_CTL", \H20038),
                                 W("CPU_PWR_CTL", \H20008),
                                 W("CPU_PWR_CTL", \H20088) >>
            /\ \A i \in WritesTo(p, CpuRegs, Len(io[p]) + 1) :
                  i < Len(io[p]) /\ io[p][i + 1] = MB
            /\ \A i \in WritesTo(p, L2Regs, Len(io[p]) + 1),
                  j \in WritesTo(p, CpuRegs, Len(io[p]) + 1) : i < j

C17_Witness ==
    \E p \in Primaries :
        /\ pc[p] = "mark" /\ Len(CpuWrites(p)) = 7
        /\ Cardinality(WritesTo(p, L2Regs, Len(io[p]) + 1)) = 10

\* The position of a write in the call's log (0 when it was not made).
At(p, reg, v) ==
    IF \E i \in DOMAIN io[p] : io[p][i] = W(reg, v)
    THEN CHOOSE i \in DOMAIN io[p] : io[p][i] = W(reg, v)
    ELSE 0
\* The delays of the call while the L2 block was mapped.
L2Delays(p) ==
    {i \in Ops(p, {"udelay"}) :
        \E j \in Ops(p, {"iounmap"}) : io[p][j].obj = "l2pd" /\ i < j}
\* The call has run the whole L2 power-up sequence.
L2SequenceRan(p) ==
    StatusReadClear(p) /\ Cardinality(WritesTo(p, L2Regs, Len(io[p]) + 1)) = 10
\* A delay of the given length follows the write, after its barrier.
DelayAfter(p, i, us) ==
    i + 2 <= Len(io[p]) /\ io[p][i + 1] = MB /\ io[p][i + 2] = Udelay(us)

\* C18 as stated: when the status bit is clear the L2 sequence releases the
\* memory and logic clamps, then de-asserts the reset override, then enables
\* the clock, and has exactly two delays: 2us after the override assert and
\* 2us after the clamp de-assert.
C18_L2OrderTwoDelays ==
    \A p \in Primaries :
        L2SequenceRan(p) =>
            /\ At(p, "L2_PWR_CTL", \H101700) < At(p, "L2_PWR_CTL_OVERRIDE", 0)
            /\ At(p, "L2_PWR_CTL", \H101603) < At(p, "L2_PWR_CTL_OVERRIDE", 0)
            /\ At(p, "L2_PWR_CTL_OVERRIDE", 0) < At(p, "L2_CORE_CBCR", 1)
            /\ Cardinality(L2Delays(p)) = 2
            /\ DelayAfter(p, At(p, "L2_PWR_CTL_OVERRIDE", \H400000), 2)
            /\ DelayAfter(p, At(p, "L2_PWR_CTL", \H101603), 2)

\* C18, amended: when the status bit is clear the L2 sequence de-asserts the
\* memory clamp (0x101700), enables the clock (CBCR 0x01), de-asserts the
\* logic clamp (0x101603), then the reset override (0x0), in this order, and
\* has exactly four delays: 2us after the override assert, 2us after the RAM
\* wake-up (0x101703), 2us after the logic clamp de-assert and 54us after the
\* logic reset de-assert (0x100203).
C18_L2OrderFourDelays ==
    \A p \in Primaries :
        L2SequenceRan(p) =>
            /\ At(p, "L2_PWR_CTL", \H101700) > 0
            /\ At(p, "L2_PWR_CTL", \H101700) < At(p, "L2_CORE_CBCR", 1)
            /\ At(p, "L2_CORE_CBCR", 1) < At(p, "L2_PWR_CTL", \H101603)
            /\ At(p, "L2_PWR_CTL", \H101603) < At(p, "L2_PWR_CTL_OVERRIDE", 0)
            /\ Cardinality(L2Delays(p)) = 4
            /\ DelayAfter(p, At(p, "L2_PWR_CTL_OVERRIDE", \H400000), 2)
            /\ DelayAfter(p, At(p, "L2_PWR_CTL", \H101703), 2)
            /\ DelayAfter(p, At(p, "L2_PWR_CTL", \H101603), 2)
            /\ DelayAfter(p, At(p, "L2_PWR_CTL", \H100203), 54)

C18_Witness ==
    \E p \in Primaries :
        /\ pc[p] = "acc_map" /\ L2SequenceRan(p)
        /\ Cardinality(L2Delays(p)) = 4

\* The delays of the call while the ACC block was mapped.
CpuDelays(p) ==
    {i \in Ops(p, {"udelay"}) :
        \E j \in Ops(p, {"of_iomap"}) : io[p][j].obj = "acc" /\ j < i}
\* The core writes that are followed by a barrier and nothing else.
BarrierOnlyAfter(p) ==
    {i \in WritesTo(p, CpuRegs, Len(io[p]) + 1) :
        /\ i < Len(io[p]) /\ io[p][i + 1] = MB
        /\ i + 2 <= Len(io[p]) => io[p][i + 2].op # "udelay"}
\* The core writes that are followed by a barrier and a delay of 2us.
DelayedAfter(p) ==
    {i \in WritesTo(p, CpuRegs, Len(io[p]) + 1) : DelayAfter(p, i, 2)}

\* C19 as stated: the core power-rail sequence has a delay at exactly two
\* points, each of 2us, and its other writes are followed by a barrier only.
C19_CoreTwoDelays ==
    \A p \in Primaries :
        Len(CpuWrites(p)) = 7 =>
            /\ Cardinality(CpuDelays(p)) = 2
            /\ Cardinality(DelayedAfter(p)) = 2
            /\ Cardinality(BarrierOnlyAfter(p)) = 5

\* C19, amended: the core power-rail sequence has a delay at exactly three
\* points, each of 2us: after the clock-gate skew write, after the array gate
\* is closed (0x39) and after the core clamp is de-asserted (0x20038); its
\* other four writes are followed by a barrier only.
C19_CoreThreeDelays ==
    \A p \in Primaries :
        Len(CpuWrites(p)) = 7 =>
            /\ Cardinality(CpuDelays(p)) = 3
            /\ DelayedAfter(p) = { At(p, "CPU_PWR_GATE_CTL", \H10000001),
                                   At(p, "CPU_PWR_CTL", \H39),
                                   At(p, "CPU_PWR_CTL", \H20038) }
            /\ Cardinality(DelayedAfter(p)) = 3
            /\ Cardinality(BarrierOnlyAfter(p)) = 4

C19_Witness ==
    \E p \in Primaries :
        /\ pc[p] = "mark" /\ Len(CpuWrites(p)) = 7
        /\ Cardinality(CpuDelays(p)) = 3
        /\ StatusReadSet(p)

\* C20: for each L2 power domain the power-up writes are made at most once
\* (only while the domain still reports the cache unpowered), and no call
\* maps the domain's block while another call has it mapped, whatever the
\* overlap of the msm_cpu_boot calls for the cores that share the domain.
C20_L2SequenceOncePerDomain ==
    [][\A p \in Primaries :
          /\ (pc[p] = "l2_seq" /\ pc'[p] = "acc_map") =>
                ~L2Powered(l2_status[L2Domain(cpu[p])])
          /\ (pc[p] = "l2_map" /\ pc'[p] = "l2_seq") =>
                \A q \in Primaries \ {p} :
                    pc[q] = "l2_seq" => L2Domain(cpu[q]) # L2Domain(cpu[p])]_vars

\* Some msm_cpu_prepare call has returned 0.
SomePrepareSucceeded == \E c \in PreparedCpus : prepared[c] = "ok"

\* C21: once a msm_cpu_prepare call has returned 0, for whichever cpu,
\* cold_boot_done of cpu 0 is true, and a msm_cpu_boot(0) entered from then
\* on finds the flag set: it makes no lookup, mapping or register access and
\* goes straight to secondary_pen_release.
C21_Cpu0MarkedByPrepare ==
    /\ [](SomePrepareSucceeded => cold_boot_done[0])
    /\ [][\A c \in PreparedCpus :
             (prepared[c] = "none" /\ prepared'[c] = "ok") => cold_boot_done'[0]]_vars
    /\ [][\A p \in Primaries :
             (/\ SomePrepareSucceeded
              /\ pc[p] = "idle" /\ pc'[p] # "idle" /\ cpu'[p] = 0) =>
                /\ ~cold'[p]
                /\ pc'[p] = "lock"
                /\ io'[p] = << >>
                /\ pwr_runs' = pwr_runs]_vars

C21_Witness ==
    \E p \in Primaries :
        /\ cpu[p] = 0 /\ pc[p] = "poll" /\ ~cold[p]
        /\ pwr_runs[0] = 0
        /\ prepared[MaxCpu] = "ok" /\ prepared[1] = "failed"

\* The number of operations of a kind that the call made on an object.
Count(p, kind, obj) ==
    Cardinality({i \in Ops(p, {kind}) : io[p][i].obj = obj})
\* The call has returned from msm_unclamp_secondary_arm_cpu.
UnclampReturned(p) ==
    cold[p] /\ pc[p] \in {"mark", "lock", "publish", "loop", "poll", "unlock", "ret", "done"}
\* The call has returned from msm_power_on_l2_cache.
L2PowerOnReturned(p) == cold[p] /\ pc[p] = "acc_map"

\* C23: when msm_unclamp_secondary_arm_cpu has returned, on any path, each
\* device-tree node it obtained has been put exactly once and each mapping
\* it created has been unmapped exactly once; the same holds of the L2
\* block's mapping when msm_power_on_l2_cache has returned.
C23_ReferencesReleased ==
    \A p \in Primaries :
        /\ \A n \in {"cpu", "acc", "l2", "l2pd"} :
              /\ Count(p, "of_get", n) <= 1
              /\ Count(p, "of_node_put", n) <= Count(p, "of_get", n)
              /\ UnclampReturned(p) =>
                    Count(p, "of_node_put", n) = Count(p, "of_get", n)
        /\ \A b \in {"l2pd", "acc"} :
              /\ Count(p, "of_iomap", b) <= 1
              /\ Count(p, "iounmap", b) <= Count(p, "of_iomap", b)
              /\ UnclampReturned(p) =>
                    Count(p, "iounmap", b) = Count(p, "of_iomap", b)
        /\ L2PowerOnReturned(p) =>
              Count(p, "iounmap", "l2pd") = Count(p, "of_iomap", "l2pd")

C23_Witness ==
    \E p \in Primaries :
        /\ pc[p] = "done" /\ cold[p] /\ MapFailed(p, "acc")
        /\ Count(p, "of_get", "l2pd") = 1 /\ Count(p, "of_node_put", "l2pd") = 1
        /\ Count(p, "of_iomap", "l2pd") = 1 /\ Count(p, "iounmap", "l2pd") = 1
        /\ Count(p, "of_iomap", "acc") = 0

\* C22: over any sequence of msm_cpu_init calls the availability check
\* succeeds at most once; while it has not, every call consults the firmware,
\* returns -ENOSYS and leaves initialized at 0; after its first success every
\* call, for any cpu, returns 0 and does not consult the firmware.
C22_InitOnce ==
    /\ [](/\ scm_available <= 1
          /\ initialized = 0 =>
                /\ scm_available = 0
                /\ scm_checks = init_calls
                /\ init_calls > 0 => init_ret = -ENOSYS
          /\ initialized # 0 => scm_available = 1 /\ init_ret = 0)
    /\ [][initialized # 0 =>
             /\ scm_checks' = scm_checks
             /\ initialized' = initialized
             /\ init_ret' = 0]_vars

C22_Witness ==
    /\ initialized = 1 /\ scm_available = 1
    /\ scm_checks = 3 /\ init_calls = 5
    /\ init_cpu = MaxCpu /\ init_ret = 0

(***************************************************************************)
(* Properties of the NT35521 panel driver.                                 *)
(***************************************************************************)
DsiCommands == {"exit_sleep_mode", "set_display_on", "set_display_off", "enter_sleep_mode"}
DsiTransfers == DsiCommands \cup {"dcs_write_buffer", "dcs_read"}

\* The positions of a log that hold an operation of the given kinds.
LogOps(log, kinds) == {i \in DOMAIN log : log[i].op \in kinds}

\* The log starts with the reset pulse: high 20 ms, low 1 ms, high 20 ms.
StartsWithResetPulse(log) ==
    /\ Len(log) >= 6
    /\ [i \in 1..6 |-> << log[i].op, log[i].data >>] =
           << << "gpiod_set_value", << 1 >> >>, << "usleep_range", << 20000 >> >>,
              << "gpiod_set_value", << 0 >> >>, << "usleep_range", << 1000 >> >>,
              << "gpiod_set_value", << 1 >> >>, << "usleep_range", << 20000 >> >> >>

\* From position k on, the log is a successful manufacturer-ID read followed
\* by the whole init sequence.
ReadThenInit(log, k) ==
    /\ Len(log) >= k
    /\ log[k].op = "dcs_read"
    /\ log[k].data[1] = MCS_CMD_READ_ID
    /\ log[k].data[2] >= 0
    /\ SubSeq(log, k + 1, Len(log)) = nt35521_init_sequence_ops

\* The ID read of the log failed.
ReadFailed(log) == \E i \in LogOps(log, {"dcs_read"}) : log[i].data[2] < 0

\* What C24 says of the calls that do not set the flag.
PrepareOtherwise ==
    /\ (panel_call' = "prepare" /\ ~ctx_prepared /\ ReadFailed(panel_log')) =>
           /\ \A i \in LogOps(panel_log', {"dcs_read"}) : panel_ret' = panel_log'[i].data[2]
           /\ LogOps(panel_log', {"dcs_write_buffer"}) = {}
           /\ ~ctx_prepared'
    /\ (\/ panel_call' = "prepare" /\ ctx_prepared
        \/ panel_call' = "unprepare" /\ ~ctx_prepared) =>
           /\ panel_ret' = 0
           /\ panel_log' = << >>
           /\ gpio_value' = gpio_value
           /\ mode_flags' = mode_flags
           /\ ctx_prepared' = ctx_prepared

\* C24, as stated: 'prepared' becomes true only after the reset pulse, a
\* successful manufacturer-ID read and the full init sequence; a failed ID
\* read is returned with no init command sent and 'prepared' left false;
\* prepare on a prepared panel and unprepare on an unprepared one return 0
\* without touching the reset GPIO or the DSI link.
C24_PreparedOnlyAfterResetPulse ==
    [][/\ (~ctx_prepared /\ ctx_prepared') =>
              /\ panel_call' = "prepare"
              /\ panel_ret' = 0
              /\ StartsWithResetPulse(panel_log')
              /\ ReadThenInit(panel_log', 7)
       /\ PrepareOtherwise]_vars

\* C24, amended: the reset pulse is made when the panel has a reset GPIO;
\* without one (the GPIO is optional, and dropped when it cannot be got)
\* 'prepared' becomes true after the ID read and the init sequence alone.
C24_PreparedOnlyAfterBringUp ==
    [][/\ (~ctx_prepared /\ ctx_prepared') =>
              /\ panel_call' = "prepare"
              /\ panel_ret' = 0
              /\ IF reset_gpio
                 THEN /\ StartsWithResetPulse(panel_log')
                      /\ ReadThenInit(panel_log', 7)
                      /\ gpio_value' = 1
                 ELSE /\ LogOps(panel_log', {"gpiod_set_value"}) = {}
                      /\ ReadThenInit(panel_log', 1)
       /\ PrepareOtherwise]_vars

C24_Witness ==
    /\ panel_call = "prepare"
    /\ ctx_prepared
    /\ reset_gpio
    /\ StartsWithResetPulse(panel_log)
    /\ ReadThenInit(panel_log, 7)

\* Both commands are in the log, in this order, and both returned 0.
BothSucceeded(log, first, second) ==
    \E i, j \in DOMAIN log :
        /\ i < j
        /\ log[i].op = first /\ log[i].data = << 0 >>
        /\ log[j].op = second /\ log[j].data = << 0 >>

\* C25: 'enabled' becomes true only after exit-sleep and display-on have both
\* succeeded and false only after display-off and enter-sleep have both
\* succeeded; a failed DSI command is returned with the flag unchanged;
\* enable on an enabled panel and disable on a disabled one return 0 and
\* send no DSI command.
C25_EnabledFollowsCommands ==
    [][/\ (~ctx_enabled /\ ctx_enabled') =>
              /\ panel_call' = "enable"
              /\ BothSucceeded(panel_log', "exit_sleep_mode", "set_display_on")
       /\ (ctx_enabled /\ ~ctx_enabled') =>
              /\ panel_call' = "disable"
              /\ BothSucceeded(panel_log', "set_display_off", "enter_sleep_mode")
       /\ panel_call' \in {"enable", "disable"} =>
              \A i \in LogOps(panel_log', DsiCommands) :
                  panel_log'[i].data # << 0 >> =>
                      /\ panel_ret' = panel_log'[i].data[1]
                      /\ ctx_enabled' = ctx_enabled
       /\ (\/ panel_call' = "enable" /\ ctx_enabled
           \/ panel_call' = "disable" /\ ~ctx_enabled) =>
              /\ panel_ret' = 0
              /\ LogOps(panel_log', DsiTransfers) = {}
              /\ ctx_enabled' = ctx_enabled]_vars

C25_Witness ==
    /\ panel_call = "disable"
    /\ ctx_enabled
    /\ panel_ret # 0
    /\ \E i \in LogOps(panel_log, {"enter_sleep_mode"}) : panel_log[i].data # << 0 >>

\* C26: once a call has returned, the backlight is switched on exactly when
\* 'enabled' is true.
C26_BacklightFollowsEnabled ==
    probed = "ok" => (bl_power = "UNBLANK" <=> ctx_enabled)

\* C27: on a panel that is not prepared nt35521_backlight_update_status
\* returns -ENXIO, sends nothing and leaves the DSI mode flags alone; on a
\* prepared one it sends one brightness write with low-power mode cleared,
\* sets low-power mode again and returns 0; low-power mode is set after
\* every call that sent a command.
C27_BacklightUpdate ==
    /\ [][panel_call' = "backlight_update_status" =>
              IF ~ctx_prepared
              THEN /\ panel_ret' = -ENXIO
                   /\ LogOps(panel_log', DsiTransfers) = {}
                   /\ mode_flags' = mode_flags
              ELSE /\ panel_ret' = 0
                   /\ Len(panel_log') = 1
                   /\ panel_log'[1].op = "dcs_write_buffer"
                   /\ panel_log'[1].data = << \H51, brightness' >>
                   /\ panel_log'[1].lpm = FALSE
                   /\ mode_flags' = mode_flags \cup {"LPM"}]_vars
    /\ []((panel_call = "backlight_update_status"
           /\ LogOps(panel_log, DsiTransfers) # {}) => "LPM" \in mode_flags)

C27_Witness ==
    /\ panel_call = "backlight_update_status"
    /\ ctx_prepared
    /\ panel_ret = 0
    /\ Len(panel_log) = 1
    /\ brightness = NT35521_BACKLIGHT_MAX

(***************************************************************************)
(* Properties of the A53 PLL driver.                                       *)
(***************************************************************************)
\* C28: every table installed as pll->freq_tbl ends with an all-zero
\* sentinel entry, so a scan that stops at the first zero-frequency entry
\* never reads past the end of the array.
C28_TablesEndWithSentinel ==
    /\ pll_tbl # "none" =>
           FreqTable(pll_tbl)[Len(FreqTable(pll_tbl))] = Sentinel
    /\ pll_beyond = 0

=============================================================================
